---- MODULE Spec2Model ----
(***************************************************************************)
(* LAN session layer of lspire: src/network.rs (NetworkState, ServerList,  *)
(* PlayerRegistry and the four Update systems) together with the lobby     *)
(* systems of src/lobby.rs that drive the role changes.                    *)
(*                                                                         *)
(* Time is counted in units of 500 ms.  Remote socket addresses are the    *)
(* numbers 1..NumAddr; the two broadcast destinations are named.           *)
(* HashMap iteration order is unspecified in the source; the model lists   *)
(* keys in ascending order and no formula below depends on that order.     *)
(*                                                                         *)
(* Beside it, the engine library of src/main.rs: world/chunk.rs,           *)
(* physics/player.rs and rendering/instanced.rs.                           *)
(* src/remote_player.rs, which spawns a capsule for every participant the *)
(* registry names, follows the systems of the session layer.               *)
(***************************************************************************)
EXTENDS Integers, Sequences, FiniteSets, TLC

VARIABLES
    gameState,          \* menu.rs GameState: "Menu", "Lobby", "InGame"
    mode,               \* NetworkState.mode
    socket,             \* NetworkState.socket
    server_addr,        \* NetworkState.server_addr
    local_player_id,    \* NetworkState.local_player_id
    last_discovery,     \* NetworkState.last_discovery
    ping_ms,            \* NetworkState.ping_ms
    last_ping_sent,     \* NetworkState.last_ping_sent
    servers,            \* ServerList.servers
    players,            \* PlayerRegistry.players
    client_addresses,   \* PlayerRegistry.client_addresses
    events,             \* NetworkEvents written by the last run of handle_network_events
    sent,               \* datagrams sent by the last system or control call
    now,                \* the clock, in units of 500 ms
    result,             \* Ok/Err returned by the last control operation
    overflow_checks,    \* the build: TRUE when integer overflow panics (debug
                        \* profile), FALSE when it wraps (release profile)
    fault,              \* TRUE once a system has panicked
    scn,                \* history: progress of the end-to-end join scenario
    dropped,            \* history: datagrams the last run of handle_network_events
                        \* could not decode
    pinged,             \* history: the times of the last two Pings send_ping sent,
                        \* oldest first, -1 where there is none
    wire,               \* a message on its way through bincode: the message, its
                        \* encoding and what the encoding decodes to
    chunk_manager,      \* world/chunk.rs ChunkManager: chunks (the keys) and
                        \* load_radius
    player,             \* physics/player.rs Player, the fields sprinting uses
    renderer,           \* rendering/instanced.rs InstancedRenderer
    calls,              \* history: the PlayerController calls made so far
    remote_players      \* remote_player.rs: the RemotePlayer entities spawned so
                        \* far, live or despawned, by Entity

vars == <<gameState, mode, socket, server_addr, local_player_id, last_discovery,
          ping_ms, last_ping_sent, servers, players, client_addresses, events,
          sent, now, result, overflow_checks, fault, scn, dropped, pinged,
          wire, chunk_manager, player, renderer, calls, remote_players>>

engineVars == <<chunk_manager, player, renderer, calls>>

netVars == <<mode, socket, server_addr, local_player_id, last_discovery,
             ping_ms, last_ping_sent>>

-----------------------------------------------------------------------------
(* Bounds of the model. *)

NumAddr == 3        \* remote addresses 1..NumAddr
MaxId == 3          \* participant ids 0..MaxId
MaxBatch == 2       \* datagrams one run of handle_network_events drains
MaxTime == 12       \* the clock stops at MaxTime
PingHorizon == 6    \* the clock stops at PingHorizon where pings are followed
MaxFails == 3       \* the first MaxFails sends of a run may fail
MaxRadius == 1      \* load_radius of a ChunkManager is 0..MaxRadius
MaxCalls == 3       \* PlayerController calls followed
MaxInstances == 3   \* max_instances of a renderer is 0..MaxInstances
MaxJoins == 9       \* joining addresses 1..MaxJoins where the capacity is tried
MaxEntities == 3    \* RemotePlayer entities spawned in a session

(* Program constants. *)

SERVER_PORT == 7878
DISCOVERY_PORT == 7879
EPHEMERAL_PORT == 0
MAX_PLAYERS == 8
STALE_WINDOW == 10          \* Duration::from_secs(5), in 500 ms units
ANNOUNCE_PERIOD == 4        \* Duration::from_secs(2), in 500 ms units
PING_PERIOD == 1            \* Duration::from_millis(500), in 500 ms units
UNIT_MS == 500

Addr == 1..NumAddr
Ids == 0..MaxId
NoAddr == 0
NoSocket == [port |-> -1, peer |-> NoAddr]
BROADCAST_7878 == 7878    \* the destination 255.255.255.255:7878
BROADCAST_7879 == 7879    \* the destination 255.255.255.255:7879

ZERO == <<0, 0, 0>>
P123 == <<1, 2, 3>>
IDENTITY == <<0, 0, 0, 1>>
Positions == {ZERO, P123}
NoEntity == 0

RECURSIVE SortedSeq(_)
\* the elements of a finite set of integers, ascending
SortedSeq(S) ==
    IF S = {} THEN <<>>
    ELSE LET m == CHOOSE x \in S : \A y \in S : x <= y
         IN <<m>> \o SortedSeq(S \ {m})

-----------------------------------------------------------------------------
(* NetworkMessage and its wire form. *)

ServerAnnounce(name, player_count, max_players) ==
    [kind |-> "ServerAnnounce", name |-> name, player_count |-> player_count,
     max_players |-> max_players]
DiscoveryRequest == [kind |-> "DiscoveryRequest"]
JoinRequest(player_name) == [kind |-> "JoinRequest", player_name |-> player_name]
JoinAccept(player_id, existing_players) ==
    [kind |-> "JoinAccept", player_id |-> player_id,
     existing_players |-> existing_players]
PlayerSpawn(player_id, position, rotation) ==
    [kind |-> "PlayerSpawn", player_id |-> player_id, position |-> position,
     rotation |-> rotation]
PlayerUpdate(player_id, position, rotation) ==
    [kind |-> "PlayerUpdate", player_id |-> player_id, position |-> position,
     rotation |-> rotation]
PlayerDisconnect(player_id) == [kind |-> "PlayerDisconnect", player_id |-> player_id]
Ping(timestamp) == [kind |-> "Ping", timestamp |-> timestamp]
Pong(timestamp) == [kind |-> "Pong", timestamp |-> timestamp]

DecodeErr == [kind |-> "Err"]

\* mutant: Pong written with the variant index of Ping
SerializeSharedIndex(msg) ==
    CASE msg.kind = "ServerAnnounce" ->
            <<0, msg.name, msg.player_count, msg.max_players>>
      [] msg.kind = "DiscoveryRequest" -> <<1>>
      [] msg.kind = "JoinRequest" -> <<2, msg.player_name>>
      [] msg.kind = "JoinAccept" -> <<3, msg.player_id, msg.existing_players>>
      [] msg.kind = "PlayerSpawn" -> <<4, msg.player_id, msg.position, msg.rotation>>
      [] msg.kind = "PlayerUpdate" -> <<5, msg.player_id, msg.position, msg.rotation>>
      [] msg.kind = "PlayerDisconnect" -> <<6, msg.player_id>>
      [] msg.kind = "Ping" -> <<7, msg.timestamp>>
      [] msg.kind = "Pong" -> <<7, msg.timestamp>>

\* bincode::serialize: the variant index followed by the fields in order
Serialize(msg) ==
    CASE msg.kind = "ServerAnnounce" ->
            <<0, msg.name, msg.player_count, msg.max_players>>
      [] msg.kind = "DiscoveryRequest" -> <<1>>
      [] msg.kind = "JoinRequest" -> <<2, msg.player_name>>
      [] msg.kind = "JoinAccept" -> <<3, msg.player_id, msg.existing_players>>
      [] msg.kind = "PlayerSpawn" -> <<4, msg.player_id, msg.position, msg.rotation>>
      [] msg.kind = "PlayerUpdate" -> <<5, msg.player_id, msg.position, msg.rotation>>
      [] msg.kind = "PlayerDisconnect" -> <<6, msg.player_id>>
      [] msg.kind = "Ping" -> <<7, msg.timestamp>>
      [] msg.kind = "Pong" -> <<8, msg.timestamp>>

\* bincode::deserialize::<NetworkMessage>: Err on an unknown variant index or
\* on a buffer that ends before the variant's fields
Deserialize(data) ==
    IF Len(data) = 0 THEN DecodeErr
    ELSE CASE data[1] = 0 /\ Len(data) >= 4 -> ServerAnnounce(data[2], data[3], data[4])
           [] data[1] = 1 -> DiscoveryRequest
           [] data[1] = 2 /\ Len(data) >= 2 -> JoinRequest(data[2])
           [] data[1] = 3 /\ Len(data) >= 3 -> JoinAccept(data[2], data[3])
           [] data[1] = 4 /\ Len(data) >= 4 -> PlayerSpawn(data[2], data[3], data[4])
           [] data[1] = 5 /\ Len(data) >= 4 -> PlayerUpdate(data[2], data[3], data[4])
           [] data[1] = 6 /\ Len(data) >= 2 -> PlayerDisconnect(data[2])
           [] data[1] = 7 /\ Len(data) >= 2 -> Ping(data[2])
           [] data[1] = 8 /\ Len(data) >= 2 -> Pong(data[2])
           [] OTHER -> DecodeErr

PlayerData(id, position, rotation, entity) ==
    [id |-> id, position |-> position, rotation |-> rotation, entity |-> entity]

ServerInfo(name, player_count, max_players, last_seen) ==
    [name |-> name, player_count |-> player_count, max_players |-> max_players,
     last_seen |-> last_seen]

\* HashMap::insert and HashMap::remove
MapInsert(m, k, v) == [x \in DOMAIN m \cup {k} |-> IF x = k THEN v ELSE m[x]]
MapRemove(m, k) == [x \in DOMAIN m \ {k} |-> m[x]]
EmptyMap == [x \in {} |-> 0]

Datagram(to, msg) == [to |-> to, msg |-> msg]

\* nothing is on its way through bincode
NoWire == [stage |-> "none"]

-----------------------------------------------------------------------------
(* handle_network_events: one reaction per decoded message.  w is the state  *)
(* the system works on: the fields of NetworkState, ServerList and           *)
(* PlayerRegistry it reads or writes, the events written and the datagrams   *)
(* sent so far in this run.                                                   *)

World ==
    [mode |-> mode, local_player_id |-> local_player_id, ping_ms |-> ping_ms,
     servers |-> servers, players |-> players,
     client_addresses |-> client_addresses, now |-> now,
     events |-> <<>>, sent |-> <<>>,
     overflow_checks |-> overflow_checks, fault |-> FALSE,
     attempts |-> 0, fails |-> {}]

\* mutant: the first failed send ends the sends of the reaction, as
\* socket.send_to(..)? would
SendAllStopAtError(w, dgrams) ==
    LET failed == {i \in 1..Len(dgrams) : w.attempts + i \in w.fails}
        n == IF failed = {} THEN Len(dgrams)
             ELSE (CHOOSE i \in failed : \A j \in failed : i <= j) - 1
    IN [w EXCEPT !.attempts = @ + Len(dgrams),
                 !.sent = @ \o SubSeq(dgrams, 1, n)]

\* let _ = socket.send_to(..) for each datagram of dgrams in turn: the
\* result of every send is dropped.  w.fails holds the numbers of the sends
\* of this run that the operating system refuses; w.sent gets the others.
SendAll(w, dgrams) ==
    LET kept == {i \in 1..Len(dgrams) : w.attempts + i \notin w.fails}
        order == SortedSeq(kept)
    IN [w EXCEPT !.attempts = @ + Len(dgrams),
                 !.sent = IF w.fails = {} THEN @ \o dgrams
                          ELSE @ \o [j \in 1..Len(order) |-> dgrams[order[j]]]]

\* NetworkState::send_message: broadcast as Server, to the connected peer as
\* Client, nothing when the mode is None
SendMessageDest(m, sock) ==
    CASE m = "Server" -> <<BROADCAST_7879>>
      [] m = "Client" -> <<sock.peer>>
      [] OTHER -> <<>>

\* mutant: the relay loop without its *id != skip test
RelayToAll(ca, skip, msg) ==
    LET ids == SortedSeq(DOMAIN ca)
    IN [i \in 1..Len(ids) |-> Datagram(ca[ids[i]], msg)]

\* player_registry.client_addresses.iter() filtered by *id != skip, one
\* socket.send_to each
RelayExcept(ca, skip, msg) ==
    LET ids == SortedSeq(DOMAIN ca \ {skip})
    IN [i \in 1..Len(ids) |-> Datagram(ca[ids[i]], msg)]

\* player_registry.players.values().map(|p| (p.id, p.position, p.rotation))
ExistingPlayers(ps) ==
    LET ids == SortedSeq(DOMAIN ps)
    IN [i \in 1..Len(ids) |->
            <<ps[ids[i]].id, ps[ids[i]].position, ps[ids[i]].rotation>>]

\* mutant: ids counted from 0
NewIdZeroBased(ps) == Cardinality(DOMAIN ps)

\* let new_id = player_registry.players.len() as u32 + 1
NewId(ps) == Cardinality(DOMAIN ps) + 1

\* mutant: an announcement from a listed address leaves last_seen as it was
ArmServerAnnounceFirstSeen(w, msg, addr) ==
    [w EXCEPT !.servers =
        MapInsert(@, addr,
                  ServerInfo(msg.name, msg.player_count, msg.max_players,
                             IF addr \in DOMAIN w.servers
                             THEN w.servers[addr].last_seen ELSE w.now))]

ArmServerAnnounce(w, msg, addr) ==
    [w EXCEPT !.servers =
        MapInsert(@, addr, ServerInfo(msg.name, msg.player_count, msg.max_players, w.now))]

ArmDiscoveryRequest(w, msg, addr) ==
    IF w.mode = "Server"
    THEN LET response == ServerAnnounce("LAN Server",
                                        Cardinality(DOMAIN w.players) % 256, MAX_PLAYERS)
         IN SendAll(w, [i \in 1..Len(SendMessageDest(w.mode, NoSocket)) |->
                            Datagram(SendMessageDest(w.mode, NoSocket)[i], response)])
    ELSE w

ArmJoinRequest(w, msg, addr) ==
    IF w.mode = "Server"
    THEN LET new_id == NewId(w.players)
             accept == JoinAccept(new_id, ExistingPlayers(w.players))
             ca == MapInsert(w.client_addresses, new_id, addr)
             ps == MapInsert(w.players, new_id,
                             PlayerData(new_id, ZERO, IDENTITY, NoEntity))
             spawn_msg == PlayerSpawn(new_id, ZERO, IDENTITY)
         IN SendAll([w EXCEPT !.client_addresses = ca,
                              !.players = ps,
                              !.events = Append(@, <<"PlayerJoined", new_id>>)],
                    <<Datagram(addr, accept)>> \o RelayExcept(ca, new_id, spawn_msg))
    ELSE w

RECURSIVE InsertExistingAll(_, _, _)
\* mutant: the loop without its id != player_id test
InsertExistingAll(w, list, i) ==
    IF i > Len(list) THEN w
    ELSE LET id == list[i][1]
         IN InsertExistingAll(
                [w EXCEPT !.players =
                      MapInsert(@, id, PlayerData(id, list[i][2], list[i][3], NoEntity)),
                          !.events = Append(@, <<"PlayerJoined", id>>)],
                list, i + 1)

RECURSIVE InsertExisting(_, _, _)
\* the for loop of the JoinAccept arm, from entry i of the list on
InsertExisting(w, list, i) ==
    IF i > Len(list) THEN w
    ELSE LET id == list[i][1]
             w1 == IF id # w.local_player_id
                   THEN [w EXCEPT !.players =
                                MapInsert(@, id, PlayerData(id, list[i][2], list[i][3], NoEntity)),
                                  !.events = Append(@, <<"PlayerJoined", id>>)]
                   ELSE w
         IN InsertExisting(w1, list, i + 1)

\* mutant: the snapshot of a JoinAccept replaces the registry
ArmJoinAcceptFresh(w, msg, addr) ==
    LET w1 == [w EXCEPT !.local_player_id = msg.player_id, !.players = EmptyMap]
        w2 == InsertExisting(w1, msg.existing_players, 1)
    IN [w2 EXCEPT !.events = Append(@, <<"ConnectedToServer", addr>>)]

ArmJoinAccept(w, msg, addr) ==
    LET w1 == [w EXCEPT !.local_player_id = msg.player_id]
        w2 == InsertExisting(w1, msg.existing_players, 1)
    IN [w2 EXCEPT !.events = Append(@, <<"ConnectedToServer", addr>>)]

ArmPlayerSpawn(w, msg, addr) ==
    IF msg.player_id # w.local_player_id
    THEN [w EXCEPT !.players =
                MapInsert(@, msg.player_id,
                          PlayerData(msg.player_id, msg.position, msg.rotation, NoEntity)),
                   !.events = Append(@, <<"PlayerJoined", msg.player_id>>)]
    ELSE w

\* mutant: a joiner drops the update of a participant it has no record of
ArmPlayerUpdateKnownOnly(w, msg, addr) ==
    IF w.mode = "Server"
    THEN LET ps == IF msg.player_id \in DOMAIN w.players
                   THEN [w.players EXCEPT ![msg.player_id].position = msg.position,
                                          ![msg.player_id].rotation = msg.rotation]
                   ELSE w.players
             update_msg == PlayerUpdate(msg.player_id, msg.position, msg.rotation)
         IN SendAll([w EXCEPT !.players = ps],
                    RelayExcept(w.client_addresses, msg.player_id, update_msg))
    ELSE IF msg.player_id # w.local_player_id /\ msg.player_id \in DOMAIN w.players
    THEN [w EXCEPT !.players[msg.player_id].position = msg.position,
                   !.players[msg.player_id].rotation = msg.rotation,
                   !.events = Append(@, <<"PlayerMoved", msg.player_id,
                                          msg.position, msg.rotation>>)]
    ELSE w

ArmPlayerUpdate(w, msg, addr) ==
    IF w.mode = "Server"
    THEN LET ps == IF msg.player_id \in DOMAIN w.players
                   THEN [w.players EXCEPT ![msg.player_id].position = msg.position,
                                          ![msg.player_id].rotation = msg.rotation]
                   ELSE w.players
             update_msg == PlayerUpdate(msg.player_id, msg.position, msg.rotation)
         IN SendAll([w EXCEPT !.players = ps],
                    RelayExcept(w.client_addresses, msg.player_id, update_msg))
    ELSE IF msg.player_id # w.local_player_id
    THEN LET ps == IF msg.player_id \in DOMAIN w.players
                   THEN [w.players EXCEPT ![msg.player_id].position = msg.position,
                                          ![msg.player_id].rotation = msg.rotation]
                   ELSE MapInsert(w.players, msg.player_id,
                                  PlayerData(msg.player_id, msg.position, msg.rotation, NoEntity))
         IN [w EXCEPT !.players = ps,
                      !.events = Append(@, <<"PlayerMoved", msg.player_id,
                                             msg.position, msg.rotation>>)]
    ELSE w

\* mutant: the records above the removed id move down one id
ArmPlayerDisconnectRenumber(w, msg, addr) ==
    LET ps == MapRemove(w.players, msg.player_id)
        old(k) == IF k >= msg.player_id THEN k + 1 ELSE k
        keys == {IF j > msg.player_id THEN j - 1 ELSE j : j \in DOMAIN ps}
    IN [w EXCEPT !.players = [k \in keys |-> [ps[old(k)] EXCEPT !.id = k]],
                 !.events = Append(@, <<"PlayerLeft", msg.player_id>>)]

ArmPlayerDisconnect(w, msg, addr) ==
    [w EXCEPT !.players = MapRemove(@, msg.player_id),
              !.events = Append(@, <<"PlayerLeft", msg.player_id>>)]

\* mutant: the Ping arm without its test of the mode
ArmPingAnyRole(w, msg, addr) ==
    SendAll(w, <<Datagram(addr, Pong(msg.timestamp))>>)

ArmPing(w, msg, addr) ==
    IF w.mode = "Server"
    THEN SendAll(w, <<Datagram(addr, Pong(msg.timestamp))>>)
    ELSE w

\* (now - timestamp) as f32 on u128 milliseconds.  A timestamp ahead of the
\* clock makes the subtraction overflow: a panic in a build with overflow
\* checks, 2^128 - (timestamp - now) in a build without, which the cast to
\* f32 rounds to infinity.
F32_INFINITY == 2147483647
ArmPong(w, msg, addr) ==
    IF w.mode = "Client"
    THEN IF w.now >= msg.timestamp
         THEN [w EXCEPT !.ping_ms = (w.now - msg.timestamp) * UNIT_MS]
         ELSE IF w.overflow_checks
         THEN [w EXCEPT !.fault = TRUE]
         ELSE [w EXCEPT !.ping_ms = F32_INFINITY]
    ELSE w

\* the match of handle_network_events
React(w, msg, addr) ==
    CASE msg.kind = "ServerAnnounce" -> ArmServerAnnounce(w, msg, addr)
      [] msg.kind = "DiscoveryRequest" -> ArmDiscoveryRequest(w, msg, addr)
      [] msg.kind = "JoinRequest" -> ArmJoinRequest(w, msg, addr)
      [] msg.kind = "JoinAccept" -> ArmJoinAccept(w, msg, addr)
      [] msg.kind = "PlayerSpawn" -> ArmPlayerSpawn(w, msg, addr)
      [] msg.kind = "PlayerUpdate" -> ArmPlayerUpdate(w, msg, addr)
      [] msg.kind = "PlayerDisconnect" -> ArmPlayerDisconnect(w, msg, addr)
      [] msg.kind = "Ping" -> ArmPing(w, msg, addr)
      [] msg.kind = "Pong" -> ArmPong(w, msg, addr)

RECURSIVE DecodedPrefix(_, _)
DecodedPrefix(buf, i) ==
    IF i > Len(buf) \/ Deserialize(buf[i].data) = DecodeErr THEN <<>>
    ELSE <<[msg |-> Deserialize(buf[i].data), addr |-> buf[i].from]>>
             \o DecodedPrefix(buf, i + 1)

\* mutant: the drain loop ends at the first datagram that does not decode
PendingUpdatesStopAtError(buf) == DecodedPrefix(buf, 1)

\* while let Ok(..) = socket.recv_from: the datagrams that decode, in order
PendingUpdates(buf) ==
    SelectSeq([i \in 1..Len(buf) |->
                  [msg |-> Deserialize(buf[i].data), addr |-> buf[i].from]],
              LAMBDA p : p.msg # DecodeErr)

\* mutant: one datagram reacted to per run
ProcessPendingFirst(w, pending, i) ==
    IF i > Len(pending) \/ w.fault THEN w
    ELSE React(w, pending[i].msg, pending[i].addr)

RECURSIVE ProcessPending(_, _, _)
\* for (msg, addr) in pending_updates, from entry i on; a panic ends the loop
ProcessPending(w, pending, i) ==
    IF i > Len(pending) \/ w.fault THEN w
    ELSE ProcessPending(React(w, pending[i].msg, pending[i].addr), pending, i + 1)

-----------------------------------------------------------------------------
(* History kept for the properties; the program does not read it. *)

ScnOff == [step |-> -1, x |-> NoAddr, y |-> NoAddr, fresh |-> FALSE]
ScnStart == [step |-> 0, x |-> NoAddr, y |-> NoAddr, fresh |-> TRUE]

\* the scenario: JoinRequest from x, PlayerUpdate{1, (1,2,3)} from x,
\* JoinRequest from y, each handled by a run of its own; fresh says that the
\* last run is the one that took the step, so that sent is what it sent
ScnNext(s, pending) ==
    IF Len(pending) = 0 THEN [s EXCEPT !.fresh = FALSE]
    ELSE IF Len(pending) > 1 \/ s.step \notin {0, 1, 2} THEN ScnOff
    ELSE LET m == pending[1].msg
             a == pending[1].addr
         IN CASE s.step = 0 /\ m.kind = "JoinRequest" ->
                    [step |-> 1, x |-> a, y |-> NoAddr, fresh |-> TRUE]
              [] s.step = 1 /\ m = PlayerUpdate(1, P123, IDENTITY) /\ a = s.x ->
                    [s EXCEPT !.step = 2, !.fresh = TRUE]
              [] s.step = 2 /\ m.kind = "JoinRequest" /\ a # s.x ->
                    [s EXCEPT !.step = 3, !.y = a, !.fresh = TRUE]
              [] OTHER -> ScnOff

-----------------------------------------------------------------------------
(* The systems of NetworkPlugin. *)

\* a connected socket takes datagrams from its peer only
Accepts(d) == socket.peer = NoAddr \/ d.from = socket.peer

\* buf is what socket.recv_from yields until it would block: the datagrams
\* that arrived since the last run, in arrival order; fails numbers the sends
\* of this run that fail.  The last conjunct keeps the registry within ids,
\* the ids the model follows.
HandleNetworkEventsIn(buf, fails, ids) ==
    /\ ~fault
    /\ socket # NoSocket
    /\ \A i \in 1..Len(buf) : Accepts(buf[i])
    /\ \E pending \in {PendingUpdates(buf)} :
       \E w \in {ProcessPending([World EXCEPT !.fails = fails], pending, 1)} :
          /\ local_player_id' = w.local_player_id
          /\ fault' = w.fault
          /\ ping_ms' = w.ping_ms
          /\ servers' = w.servers
          /\ players' = w.players
          /\ client_addresses' = w.client_addresses
          /\ events' = w.events
          /\ sent' = w.sent
          /\ scn' = ScnNext(scn, pending)
          /\ dropped' = Len(buf) - Len(pending)
          /\ DOMAIN w.client_addresses \subseteq ids
    /\ UNCHANGED <<engineVars, remote_players, gameState, mode, socket, server_addr, last_discovery,
                   last_ping_sent, now, result, overflow_checks, pinged, wire>>

\* the same with the registry kept within the ids 0..MaxId
HandleNetworkEventsIo(buf, fails) == HandleNetworkEventsIn(buf, fails, Ids)

\* a run in which the operating system takes every datagram sent
HandleNetworkEvents(buf) == HandleNetworkEventsIo(buf, {})

\* server_list.servers.retain(|_, info| info.last_seen.elapsed() < 5 s)
Retain(sv, t) ==
    [a \in {x \in DOMAIN sv : t - sv[x].last_seen < STALE_WINDOW} |-> sv[a]]

UpdateServerDiscovery ==
    /\ ~fault
    /\ IF mode = "Server" /\ now - last_discovery > ANNOUNCE_PERIOD
       THEN /\ sent' = [i \in 1..Len(SendMessageDest(mode, socket)) |->
                          Datagram(SendMessageDest(mode, socket)[i],
                                   ServerAnnounce("LAN Server", 0, MAX_PLAYERS))]
            /\ last_discovery' = now
       ELSE /\ sent' = <<>>
            /\ UNCHANGED last_discovery
    /\ servers' = Retain(servers, now)
    /\ UNCHANGED <<engineVars, remote_players, gameState, mode, socket, server_addr, local_player_id, ping_ms,
                   last_ping_sent, players, client_addresses, events, now,
                   result, scn, dropped,
                   overflow_checks, fault, pinged, wire>>

\* mutant: the joiner's update sent to the broadcast address
SyncPlayersBroadcast(position) ==
    /\ ~fault
    /\ mode # "None"
    /\ socket # NoSocket
    /\ gameState = "InGame"
    /\ LET msg == PlayerUpdate(local_player_id, position, IDENTITY)
       IN sent' = IF mode = "Server"
                  THEN RelayExcept(client_addresses, local_player_id, msg)
                  ELSE <<Datagram(BROADCAST_7878, msg)>>
    /\ UNCHANGED <<engineVars, remote_players, gameState, netVars, servers, players, client_addresses, events,
                   now, result, scn, dropped,
                   overflow_checks, fault, pinged, wire>>

\* transform is the local Player entity's Transform, which exists in InGame
SyncPlayers(position) ==
    /\ ~fault
    /\ mode # "None"
    /\ socket # NoSocket
    /\ gameState = "InGame"
    /\ LET msg == PlayerUpdate(local_player_id, position, IDENTITY)
       IN sent' = IF mode = "Server"
                  THEN RelayExcept(client_addresses, local_player_id, msg)
                  ELSE [i \in 1..Len(SendMessageDest(mode, socket)) |->
                          Datagram(SendMessageDest(mode, socket)[i], msg)]
    /\ UNCHANGED <<engineVars, remote_players, gameState, netVars, servers, players, client_addresses, events,
                   now, result, scn, dropped,
                   overflow_checks, fault, pinged, wire>>

\* mutant: send_ping without the test of last_ping_sent.elapsed()
SendPingUnthrottled ==
    /\ ~fault
    /\ mode = "Client"
    /\ sent' = [i \in 1..Len(SendMessageDest(mode, socket)) |->
                  Datagram(SendMessageDest(mode, socket)[i], Ping(now))]
    /\ last_ping_sent' = now
    /\ pinged' = <<pinged[2], now>>
    /\ UNCHANGED <<engineVars, remote_players, gameState, mode, socket, server_addr, local_player_id,
                   last_discovery, ping_ms, servers, players, client_addresses,
                   events, now, result, scn, dropped, overflow_checks, fault, wire>>

SendPing ==
    /\ ~fault
    /\ mode = "Client"
    /\ ~(now - last_ping_sent < PING_PERIOD)
    /\ sent' = [i \in 1..Len(SendMessageDest(mode, socket)) |->
                  Datagram(SendMessageDest(mode, socket)[i], Ping(now))]
    /\ last_ping_sent' = now
    /\ pinged' = <<pinged[2], now>>
    /\ UNCHANGED <<engineVars, remote_players, gameState, mode, socket, server_addr, local_player_id,
                   last_discovery, ping_ms, servers, players, client_addresses,
                   events, now, result, scn, dropped,
                   overflow_checks, fault, wire>>

\* let data = bincode::serialize(&msg).unwrap()
Encode ==
    /\ ~fault
    /\ wire.stage = "built"
    /\ wire' = [stage |-> "encoded", msg |-> wire.msg, data |-> Serialize(wire.msg)]
    /\ UNCHANGED <<engineVars, remote_players, gameState, netVars, servers, players, client_addresses, events,
                   sent, now, result, overflow_checks, fault, scn, dropped, pinged>>

\* bincode::deserialize::<NetworkMessage>(&buf[..size])
Decode ==
    /\ ~fault
    /\ wire.stage = "encoded"
    /\ wire' = [stage |-> "decoded", msg |-> wire.msg, data |-> wire.data,
                back |-> Deserialize(wire.data)]
    /\ UNCHANGED <<engineVars, remote_players, gameState, netVars, servers, players, client_addresses, events,
                   sent, now, result, overflow_checks, fault, scn, dropped, pinged>>

-----------------------------------------------------------------------------
(* The control operations of NetworkState and the lobby systems that call    *)
(* them.  ok says whether the operating system lets every bind, option and   *)
(* send of the call succeed.                                                 *)

NetState ==
    [mode |-> mode, socket |-> socket, server_addr |-> server_addr,
     local_player_id |-> local_player_id, last_discovery |-> last_discovery,
     ping_ms |-> ping_ms, last_ping_sent |-> last_ping_sent]

\* UdpSocket::bind fails on a port this process already holds
PortFree(port) == port = EPHEMERAL_PORT \/ socket.port # port

\* mutant: create_server changing the fields of the state it finds instead of
\* building a new one
CreateServerInPlace(ok) ==
    IF ok /\ PortFree(SERVER_PORT)
    THEN [ok |-> TRUE,
          state |-> [NetState EXCEPT !.mode = "Server",
                                     !.socket = [port |-> SERVER_PORT, peer |-> NoAddr],
                                     !.last_discovery = now],
          sent |-> <<>>]
    ELSE [ok |-> FALSE, state |-> NetState, sent |-> <<>>]

\* NetworkState::create_server() -> Result<Self, io::Error>
CreateServer(ok) ==
    IF ok /\ PortFree(SERVER_PORT)
    THEN [ok |-> TRUE,
          state |-> [mode |-> "Server",
                     socket |-> [port |-> SERVER_PORT, peer |-> NoAddr],
                     server_addr |-> NoAddr, local_player_id |-> 0,
                     last_discovery |-> now, ping_ms |-> 0, last_ping_sent |-> now],
          sent |-> <<>>]
    ELSE [ok |-> FALSE, state |-> NetState, sent |-> <<>>]

\* NetworkState::start_discovery() -> Result<Self, io::Error>
StartDiscovery(ok) ==
    IF ok /\ PortFree(DISCOVERY_PORT)
    THEN [ok |-> TRUE,
          state |-> [mode |-> "None",
                     socket |-> [port |-> DISCOVERY_PORT, peer |-> NoAddr],
                     server_addr |-> NoAddr, local_player_id |-> 0,
                     last_discovery |-> now, ping_ms |-> 0, last_ping_sent |-> now],
          sent |-> <<Datagram(BROADCAST_7878, DiscoveryRequest)>>]
    ELSE [ok |-> FALSE, state |-> NetState, sent |-> <<>>]

\* mutant: the fields are written before the send that can fail
ConnectToServerEarlyAssign(addr, ok) ==
    [ok |-> ok,
     state |-> [NetState EXCEPT !.socket = [port |-> EPHEMERAL_PORT, peer |-> addr],
                                !.server_addr = addr,
                                !.mode = "Client"],
     sent |-> IF ok THEN <<Datagram(addr, JoinRequest("Player"))>> ELSE <<>>]

\* NetworkState::connect_to_server(&mut self, server_addr) -> Result<(), io::Error>
ConnectToServer(addr, ok) ==
    IF ok
    THEN [ok |-> TRUE,
          state |-> [NetState EXCEPT !.socket = [port |-> EPHEMERAL_PORT, peer |-> addr],
                                     !.server_addr = addr,
                                     !.mode = "Client"],
          sent |-> <<Datagram(addr, JoinRequest("Player"))>>]
    ELSE [ok |-> FALSE, state |-> NetState, sent |-> <<>>]

\* *net_state = state on Ok; on Err the resource is left alone
Install(r) ==
    /\ mode' = r.state.mode
    /\ socket' = r.state.socket
    /\ server_addr' = r.state.server_addr
    /\ local_player_id' = r.state.local_player_id
    /\ last_discovery' = r.state.last_discovery
    /\ ping_ms' = r.state.ping_ms
    /\ last_ping_sent' = r.state.last_ping_sent
    /\ sent' = r.sent
    /\ result' = IF r.ok THEN "Ok" ELSE "Err"

\* menu_action (Multiplayer) followed by OnEnter(Lobby): setup_lobby
MenuMultiplayer(ok) ==
    /\ ~fault
    /\ gameState = "Menu"
    /\ gameState' = "Lobby"
    /\ Install(StartDiscovery(ok))
    /\ UNCHANGED <<engineVars, remote_players, servers, players, client_addresses, events, now, scn, dropped,
                   overflow_checks, fault, pinged, wire>>

\* mutant: Create Server without next_state.set(GameState::InGame)
LobbyCreateServerStays(ok) ==
    /\ ~fault
    /\ gameState = "Lobby"
    /\ LET r == CreateServer(ok)
       IN /\ Install(r)
          /\ scn' = ScnOff
    /\ UNCHANGED <<engineVars, remote_players, gameState, servers, players, client_addresses, events, now, dropped,
                   overflow_checks, fault, pinged, wire>>

LobbyCreateServer(ok) ==
    /\ ~fault
    /\ gameState = "Lobby"
    /\ LET r == CreateServer(ok)
       IN /\ Install(r)
          /\ gameState' = IF r.ok THEN "InGame" ELSE gameState
          /\ scn' = IF r.ok /\ DOMAIN players = {} /\ DOMAIN client_addresses = {}
                    THEN ScnStart ELSE ScnOff
    /\ UNCHANGED <<engineVars, remote_players, servers, players, client_addresses, events, now, dropped,
                   overflow_checks, fault, pinged, wire>>

LobbyRefresh(ok) ==
    /\ ~fault
    /\ gameState = "Lobby"
    /\ Install(StartDiscovery(ok))
    /\ UNCHANGED <<engineVars, remote_players, gameState, servers, players, client_addresses, events, now, scn, dropped,
                   overflow_checks, fault, pinged, wire>>

LobbyBack ==
    /\ ~fault
    /\ gameState = "Lobby"
    /\ gameState' = "Menu"
    /\ UNCHANGED <<engineVars, remote_players, netVars, servers, players, client_addresses, events,
                   sent, now, result, scn, dropped,
                   overflow_checks, fault, pinged, wire>>

\* a JoinServer button exists for every address update_server_list_ui found
\* in the catalog
LobbyJoinServer(addr, ok) ==
    /\ ~fault
    /\ gameState = "Lobby"
    /\ addr \in DOMAIN servers
    /\ Install(ConnectToServer(addr, ok))
    /\ UNCHANGED <<engineVars, remote_players, gameState, servers, players, client_addresses, events, now, scn, dropped,
                   overflow_checks, fault, pinged, wire>>

HandleConnectionEvents ==
    /\ ~fault
    /\ gameState = "Lobby"
    /\ \E i \in 1..Len(events) : events[i][1] = "ConnectedToServer"
    /\ gameState' = "InGame"
    /\ UNCHANGED <<engineVars, remote_players, netVars, servers, players, client_addresses, events,
                   sent, now, result, scn, dropped,
                   overflow_checks, fault, pinged, wire>>

-----------------------------------------------------------------------------
(* The environment: time passes. *)

Advance(dt) ==
    /\ now + dt <= MaxTime
    /\ now' = now + dt
    /\ UNCHANGED <<engineVars, remote_players, gameState, netVars, servers, players, client_addresses, events,
                   sent, result, scn, dropped,
                   overflow_checks, fault, pinged, wire>>

-----------------------------------------------------------------------------
(* remote_player.rs: the capsules that stand for the other participants.    *)
(* An Entity is its index in remote_players; a despawned entity keeps its   *)
(* index, which no later spawn gets.                                        *)

RemotePlayer(id) == [id |-> id, live |-> TRUE]

RECURSIVE SpawnRemotePlayers(_, _, _, _)
\* the for loop over events.read(), from event i on: commands.spawn(..).id()
\* yields the new Entity at once, and the entity itself appears with the
\* commands of the frame
SpawnRemotePlayers(ps, rp, evs, i) ==
    IF i > Len(evs) THEN [players |-> ps, remote_players |-> rp]
    ELSE LET id == evs[i][2]
         IN IF /\ evs[i][1] \in {"PlayerJoined", "PlayerMoved"}
               /\ id \in DOMAIN ps
               /\ ps[id].entity = NoEntity
            THEN SpawnRemotePlayers([ps EXCEPT ![id].entity = Len(rp) + 1],
                                    Append(rp, RemotePlayer(id)), evs, i + 1)
            ELSE SpawnRemotePlayers(ps, rp, evs, i + 1)

\* for each PlayerLeft(id), every entity of the query whose RemotePlayer.id
\* is id is despawned; query holds the entities that exist when the system
\* runs
DespawnRemotePlayers(rp, query, evs) ==
    [e \in 1..Len(rp) |->
        IF /\ e \in query
           /\ \E i \in 1..Len(evs) : evs[i] = <<"PlayerLeft", rp[e].id>>
        THEN [rp[e] EXCEPT !.live = FALSE]
        ELSE rp[e]]

\* One frame of the Update schedule in which handle_network_events runs
\* before the two readers of its events: the run on buf, then
\* spawn_remote_players and despawn_remote_players on the events it wrote,
\* then the commands of both.
UpdateFrame(buf) ==
    /\ ~fault
    /\ socket # NoSocket
    /\ \A i \in 1..Len(buf) : Accepts(buf[i])
    /\ \E pending \in {PendingUpdates(buf)} :
       \E w \in {ProcessPending(World, pending, 1)} :
       \E s \in {SpawnRemotePlayers(w.players, remote_players, w.events, 1)} :
          /\ Len(s.remote_players) <= MaxEntities
          /\ DOMAIN w.client_addresses \subseteq Ids
          /\ local_player_id' = w.local_player_id
          /\ fault' = w.fault
          /\ ping_ms' = w.ping_ms
          /\ servers' = w.servers
          /\ players' = s.players
          /\ client_addresses' = w.client_addresses
          /\ events' = w.events
          /\ sent' = w.sent
          /\ scn' = ScnNext(scn, pending)
          /\ dropped' = Len(buf) - Len(pending)
          /\ remote_players' =
                DespawnRemotePlayers(s.remote_players,
                                     {e \in 1..Len(remote_players) :
                                          remote_players[e].live},
                                     w.events)
    /\ UNCHANGED <<engineVars, gameState, mode, socket, server_addr, last_discovery,
                   last_ping_sent, now, result, overflow_checks, pinged, wire>>

-----------------------------------------------------------------------------
(* The engine library beside the session layer: world/chunk.rs             *)
(* (ChunkManager), physics/player.rs (Player, PlayerController) and        *)
(* rendering/instanced.rs (InstancedRenderer).  A chunk is its position,   *)
(* the key of ChunkManager.chunks; an instance is a number.  Stamina and   *)
(* the speed multiplier are counted in millionths and time in              *)
(* milliseconds, and f32 arithmetic is taken as exact.                     *)

I32_MAX == 2147483647
I32_MIN == -I32_MAX - 1

CHUNK_SIZE == 16

ChunkPos(x, z) == [x |-> x, z |-> z]

\* (a - b).abs() on i32: value is what the release profile computes (two's
\* complement wrap; i32::MIN.abs() is i32::MIN), overflow says whether the
\* dev profile panics instead
AbsDiff(a, b) ==
    LET under == b > 0 /\ a < I32_MIN + b
        over  == b < 0 /\ a > I32_MAX + b
        diff  == IF under THEN (a - I32_MIN) + (I32_MAX - b) + 1
                 ELSE IF over THEN (a - I32_MAX) + (I32_MIN - b) - 1
                 ELSE a - b
    IN [value |-> IF diff = I32_MIN THEN diff ELSE IF diff < 0 THEN -diff ELSE diff,
        overflow |-> under \/ over \/ diff = I32_MIN]

\* (player_pos.x / 16.0).floor() as i32, for coordinates whose quotient lies
\* within i32
PlayerChunk(player_pos) ==
    ChunkPos(player_pos.x \div CHUNK_SIZE, player_pos.z \div CHUNK_SIZE)

\* ChunkManager::new(seed, load_radius)
NewChunkManager(load_radius) == [chunks |-> {}, load_radius |-> load_radius]

\* Player::new; id, position, velocity, rotation and time_since_last_jump are
\* not read or written by the two operations below
NewPlayer ==
    [stamina |-> 100000000, is_sprinting |-> FALSE, is_grounded |-> FALSE,
     current_speed_multiplier |-> 1000000, time_since_last_sprint |-> 999000]

\* InstancedRenderer::new(max_instances)
NewRenderer(max_instances) ==
    [spire_instances |-> <<>>, pipe_instances |-> <<>>,
     max_instances |-> max_instances]

\* GameState::new of main.rs
EngineNew ==
    /\ chunk_manager = NewChunkManager(3)
    /\ player = NewPlayer
    /\ renderer = NewRenderer(10000)
    /\ calls = 0

sessionVars == <<gameState, mode, socket, server_addr, local_player_id,
                 last_discovery, ping_ms, last_ping_sent, servers, players,
                 client_addresses, events, sent, now, result, scn, dropped,
                 pinged, wire>>

GenerateChunk(pos) ==
    /\ ~fault
    /\ chunk_manager' = [chunk_manager EXCEPT !.chunks = @ \cup {pos}]
    /\ UNCHANGED <<sessionVars, remote_players, overflow_checks, fault, player, renderer, calls>>

UnloadChunk(pos) ==
    /\ ~fault
    /\ chunk_manager' = [chunk_manager EXCEPT !.chunks = @ \ {pos}]
    /\ UNCHANGED <<sessionVars, remote_players, overflow_checks, fault, player, renderer, calls>>

\* The chunks to load are generated first; the scan for chunks to unload
\* then visits every chunk of the map, and a panic in it leaves what was
\* generated.
UpdateLoadedChunks(player_pos) ==
    /\ ~fault
    /\ LET pc == PlayerChunk(player_pos)
           radius == chunk_manager.load_radius
           loaded == chunk_manager.chunks \cup
                       {ChunkPos(pc.x + dx, pc.z + dz) :
                            dx \in -radius..radius, dz \in -radius..radius}
           panics == /\ overflow_checks
                     /\ \E pos \in loaded : \/ AbsDiff(pos.x, pc.x).overflow
                                            \/ AbsDiff(pos.z, pc.z).overflow
           chunks_to_unload == {pos \in loaded :
                                    \/ AbsDiff(pos.x, pc.x).value > radius
                                    \/ AbsDiff(pos.z, pc.z).value > radius}
       IN /\ fault' = panics
          /\ chunk_manager' =
                [chunk_manager EXCEPT
                    !.chunks = IF panics THEN loaded ELSE loaded \ chunks_to_unload]
    /\ UNCHANGED <<sessionVars, remote_players, overflow_checks, player, renderer, calls>>

\* PlayerController::new
sprint_lockout_threshold == 30000000
stamina_drain_rate == 20000
stamina_regen_rate == 33333
stamina_regen_delay == 1000
sprint_multiplier == 2500000
sprint_acceleration_time == 500
WALK_MULTIPLIER == 1000000
FULL_STAMINA == 100000000

\* input::controls::InputState, the fields update_sprint_state reads
InputState(sprint, move_forward, move_left) ==
    [sprint |-> sprint, move_forward |-> move_forward, move_back |-> FALSE,
     move_left |-> move_left, move_right |-> FALSE]

\* mutant: the lockout threshold taken as exclusive
UpdateSprintStateExclusive(input, dt) ==
    /\ ~fault
    /\ calls < MaxCalls
    /\ calls' = calls + 1
    /\ LET sprinting == /\ input.sprint
                        /\ \/ input.move_forward \/ input.move_back
                           \/ input.move_left \/ input.move_right
                        /\ player.stamina > sprint_lockout_threshold
       IN player' = [player EXCEPT !.is_sprinting = sprinting]
    /\ UNCHANGED <<sessionVars, remote_players, overflow_checks, fault, chunk_manager, renderer>>

UpdateSprintState(input, dt) ==
    /\ ~fault
    /\ calls < MaxCalls
    /\ calls' = calls + 1
    /\ LET can_sprint == player.stamina >= sprint_lockout_threshold
           wants_to_sprint == /\ input.sprint
                              /\ \/ input.move_forward \/ input.move_back
                                 \/ input.move_left \/ input.move_right
           was_sprinting == player.is_sprinting
           sprinting == wants_to_sprint /\ can_sprint
           target_multiplier == IF sprinting THEN sprint_multiplier
                                ELSE WALK_MULTIPLIER
           acceleration_rate == (sprint_multiplier - WALK_MULTIPLIER)
                                    \div sprint_acceleration_time
           m == player.current_speed_multiplier
           up == m + acceleration_rate * dt
           down == m - acceleration_rate * dt
       IN player' =
            [player EXCEPT
                !.is_sprinting = sprinting,
                !.time_since_last_sprint =
                    IF sprinting \/ was_sprinting THEN 0 ELSE @ + dt,
                !.current_speed_multiplier =
                    IF m < target_multiplier
                    THEN IF up > target_multiplier THEN target_multiplier ELSE up
                    ELSE IF m > target_multiplier
                    THEN IF down < target_multiplier THEN target_multiplier ELSE down
                    ELSE m]
    /\ UNCHANGED <<sessionVars, remote_players, overflow_checks, fault, chunk_manager, renderer>>

\* mutant: regeneration without the ceiling of 100
UpdateStaminaNoCeiling(dt) ==
    /\ ~fault
    /\ calls < MaxCalls
    /\ calls' = calls + 1
    /\ player' =
         [player EXCEPT !.stamina =
            IF player.is_sprinting
            THEN IF @ - stamina_drain_rate * dt < 0 THEN 0
                 ELSE @ - stamina_drain_rate * dt
            ELSE IF player.time_since_last_sprint >= stamina_regen_delay
            THEN @ + stamina_regen_rate * dt
            ELSE @]
    /\ UNCHANGED <<sessionVars, remote_players, overflow_checks, fault, chunk_manager, renderer>>

\* mutant: regeneration without the delay
UpdateStaminaNoDelay(dt) ==
    /\ ~fault
    /\ calls < MaxCalls
    /\ calls' = calls + 1
    /\ player' =
         [player EXCEPT !.stamina =
            IF player.is_sprinting
            THEN IF @ - stamina_drain_rate * dt < 0 THEN 0
                 ELSE @ - stamina_drain_rate * dt
            ELSE IF @ + stamina_regen_rate * dt > FULL_STAMINA THEN FULL_STAMINA
                 ELSE @ + stamina_regen_rate * dt]
    /\ UNCHANGED <<sessionVars, remote_players, overflow_checks, fault, chunk_manager, renderer>>

UpdateStamina(dt) ==
    /\ ~fault
    /\ calls < MaxCalls
    /\ calls' = calls + 1
    /\ player' =
         [player EXCEPT !.stamina =
            IF player.is_sprinting
            THEN IF @ - stamina_drain_rate * dt < 0 THEN 0
                 ELSE @ - stamina_drain_rate * dt
            ELSE IF player.time_since_last_sprint >= stamina_regen_delay
            THEN IF @ + stamina_regen_rate * dt > FULL_STAMINA THEN FULL_STAMINA
                 ELSE @ + stamina_regen_rate * dt
            ELSE @]
    /\ UNCHANGED <<sessionVars, remote_players, overflow_checks, fault, chunk_manager, renderer>>

\* mutant: one limit shared by the two lists
AddInstanceSharedLimit(instance, is_pipe) ==
    /\ ~fault
    /\ renderer' =
         IF Len(renderer.pipe_instances) + Len(renderer.spire_instances)
                < renderer.max_instances
         THEN IF is_pipe
              THEN [renderer EXCEPT !.pipe_instances = Append(@, instance)]
              ELSE [renderer EXCEPT !.spire_instances = Append(@, instance)]
         ELSE renderer
    /\ UNCHANGED <<sessionVars, remote_players, overflow_checks, fault, chunk_manager, player, calls>>

AddInstance(instance, is_pipe) ==
    /\ ~fault
    /\ renderer' =
         IF is_pipe
         THEN IF Len(renderer.pipe_instances) < renderer.max_instances
              THEN [renderer EXCEPT !.pipe_instances = Append(@, instance)]
              ELSE renderer
         ELSE IF Len(renderer.spire_instances) < renderer.max_instances
              THEN [renderer EXCEPT !.spire_instances = Append(@, instance)]
              ELSE renderer
    /\ UNCHANGED <<sessionVars, remote_players, overflow_checks, fault, chunk_manager, player, calls>>

\* InstancedRenderer::clear
Clear ==
    /\ ~fault
    /\ renderer' = [renderer EXCEPT !.spire_instances = <<>>,
                                    !.pipe_instances = <<>>]
    /\ UNCHANGED <<sessionVars, remote_players, overflow_checks, fault, chunk_manager, player, calls>>

-----------------------------------------------------------------------------
(* Datagrams the network may deliver. *)

From(addrs, msgs) == {[from |-> a, data |-> Serialize(m)] : a \in addrs, m \in msgs}

\* what reaches a host: joins and updates from every address, the other
\* kinds and undecodable bytes from one
HostDatagrams ==
    From(Addr, {JoinRequest("Player")}
                  \cup {PlayerUpdate(i, P123, IDENTITY) : i \in Ids})
        \cup From({1}, {DiscoveryRequest, Ping(0),
                        PlayerSpawn(0, P123, IDENTITY),
                        PlayerSpawn(MaxId, P123, IDENTITY),
                        JoinAccept(2, << <<1, P123, IDENTITY>> >>)}
                          \cup {PlayerDisconnect(i) : i \in Ids})
        \cup {[from |-> 1, data |-> <<9>>]}

\* what reaches a process in the menu, the lobby or a joined game
Datagrams ==
    From(Addr, {ServerAnnounce("LAN Server", 0, MAX_PLAYERS)})
        \cup From({1}, {JoinAccept(1, <<>>), PlayerSpawn(2, P123, IDENTITY),
                        PlayerUpdate(2, ZERO, IDENTITY), PlayerDisconnect(2),
                        Pong(0), JoinRequest("Player")})
        \cup {[from |-> 1, data |-> <<9>>]}

-----------------------------------------------------------------------------
(* Specifications. *)

Batches == UNION {[1..n -> Datagrams] : n \in 0..MaxBatch}

Init ==
    /\ gameState = "Menu"
    /\ mode = "None"
    /\ socket = NoSocket
    /\ server_addr = NoAddr
    /\ local_player_id = 0
    /\ last_discovery = 0
    /\ ping_ms = 0
    /\ last_ping_sent = 0
    /\ servers = EmptyMap
    /\ players = EmptyMap
    /\ client_addresses = EmptyMap
    /\ events = <<>>
    /\ sent = <<>>
    /\ now = 0
    /\ result = "None"
    /\ scn = ScnOff
    /\ dropped = 0
    /\ overflow_checks \in BOOLEAN
    /\ fault = FALSE
    /\ pinged = <<-1, -1>>
    /\ wire = NoWire
    /\ remote_players = <<>>
    /\ EngineNew

Next ==
    \/ \E ok \in BOOLEAN : MenuMultiplayer(ok)
    \/ \E ok \in BOOLEAN : LobbyCreateServer(ok)
    \/ \E ok \in BOOLEAN : LobbyRefresh(ok)
    \/ LobbyBack
    \/ \E a \in Addr, ok \in BOOLEAN : LobbyJoinServer(a, ok)
    \/ HandleConnectionEvents
    \/ \E buf \in Batches : HandleNetworkEvents(buf)
    \/ UpdateServerDiscovery
    \/ \E p \in Positions : SyncPlayers(p)
    \/ SendPing
    \/ \E dt \in 1..2 : Advance(dt)

Spec == Init /\ [][Next]_vars

\* A host right after Create Server succeeded in the lobby, fed one datagram
\* per run of handle_network_events.
InitHost ==
    /\ gameState = "InGame"
    /\ mode = "Server"
    /\ socket = [port |-> SERVER_PORT, peer |-> NoAddr]
    /\ server_addr = NoAddr
    /\ local_player_id = 0
    /\ last_discovery = 0
    /\ ping_ms = 0
    /\ last_ping_sent = 0
    /\ servers = EmptyMap
    /\ players = EmptyMap
    /\ client_addresses = EmptyMap
    /\ events = <<>>
    /\ sent = <<>>
    /\ now = 0
    /\ result = "Ok"
    /\ scn = ScnStart
    /\ dropped = 0
    /\ overflow_checks = TRUE
    /\ fault = FALSE
    /\ pinged = <<-1, -1>>
    /\ wire = NoWire
    /\ remote_players = <<>>
    /\ EngineNew

NextHost ==
    \/ HandleNetworkEvents(<<>>)
    \/ \E d \in HostDatagrams : HandleNetworkEvents(<<d>>)

SpecHost == InitHost /\ [][NextHost]_vars

\* The same host draining up to MaxBatch datagrams per run.
PumpDatagrams ==
    From({1, 2}, {JoinRequest("Player")})
        \cup From({1}, {PlayerUpdate(1, P123, IDENTITY), PlayerDisconnect(1),
                        ServerAnnounce("LAN Server", 0, MAX_PLAYERS)})
        \cup {[from |-> 1, data |-> g] : g \in {<<9>>, <<5, 1>>}}

PumpBatches == UNION {[1..n -> PumpDatagrams] : n \in 0..MaxBatch}

NextPump == \E buf \in PumpBatches : HandleNetworkEvents(buf)

SpecPump == InitHost /\ [][NextPump]_vars

\* The menu and the lobby: the control operations, and one datagram per run
\* of handle_network_events.
NextLobby ==
    \/ \E ok \in BOOLEAN : MenuMultiplayer(ok)
    \/ \E ok \in BOOLEAN : LobbyCreateServer(ok)
    \/ \E ok \in BOOLEAN : LobbyRefresh(ok)
    \/ LobbyBack
    \/ \E a \in Addr, ok \in BOOLEAN : LobbyJoinServer(a, ok)
    \/ HandleConnectionEvents
    \/ \E d \in Datagrams : HandleNetworkEvents(<<d>>)

SpecLobby == Init /\ [][NextLobby]_vars

\* A discovering process in the lobby: announcements arrive, time passes and
\* update_server_discovery prunes.
InitCatalog ==
    /\ gameState = "Lobby"
    /\ mode = "None"
    /\ socket = [port |-> DISCOVERY_PORT, peer |-> NoAddr]
    /\ server_addr = NoAddr
    /\ local_player_id = 0
    /\ last_discovery = 0
    /\ ping_ms = 0
    /\ last_ping_sent = 0
    /\ servers = EmptyMap
    /\ players = EmptyMap
    /\ client_addresses = EmptyMap
    /\ events = <<>>
    /\ sent = <<Datagram(BROADCAST_7878, DiscoveryRequest)>>
    /\ now = 0
    /\ result = "Ok"
    /\ scn = ScnOff
    /\ dropped = 0
    /\ overflow_checks = TRUE
    /\ fault = FALSE
    /\ pinged = <<-1, -1>>
    /\ wire = NoWire
    /\ remote_players = <<>>
    /\ EngineNew

Announcements ==
    From({1, 2}, {ServerAnnounce("LAN Server", n, MAX_PLAYERS) : n \in 0..1})

NextCatalog ==
    \/ \E d \in Announcements : HandleNetworkEvents(<<d>>)
    \/ UpdateServerDiscovery
    \/ \E dt \in 1..2 : Advance(dt)

SpecCatalog == InitCatalog /\ [][NextCatalog]_vars

\* A discovering process in the lobby that has the host at address 1 in its
\* catalog: it joins, refreshes or hosts, pings, and gets Pongs and the
\* host's JoinAccept while time passes.
InitPing ==
    /\ gameState = "Lobby"
    /\ mode = "None"
    /\ socket = [port |-> DISCOVERY_PORT, peer |-> NoAddr]
    /\ server_addr = NoAddr
    /\ local_player_id = 0
    /\ last_discovery = 0
    /\ ping_ms = 0
    /\ last_ping_sent = 0
    /\ servers = MapInsert(EmptyMap, 1, ServerInfo("LAN Server", 0, MAX_PLAYERS, 0))
    /\ players = EmptyMap
    /\ client_addresses = EmptyMap
    /\ events = <<>>
    /\ sent = <<Datagram(BROADCAST_7878, DiscoveryRequest)>>
    /\ now = 0
    /\ result = "Ok"
    /\ scn = ScnOff
    /\ dropped = 0
    /\ overflow_checks \in BOOLEAN
    /\ fault = FALSE
    /\ pinged = <<-1, -1>>
    /\ wire = NoWire
    /\ remote_players = <<>>
    /\ EngineNew

PongFrom(t) == [from |-> 1, data |-> Serialize(Pong(t))]

\* the timestamps a Pong may carry: the echo of the last Ping, an old one,
\* and one ahead of the local clock
PongTimes == {t \in {pinged[2], 0, now + 1} : t >= 0}

NextPing ==
    \/ \E ok \in BOOLEAN : LobbyJoinServer(1, ok)
    \/ \E ok \in BOOLEAN : LobbyRefresh(ok)
    \/ \E ok \in BOOLEAN : LobbyCreateServer(ok)
    \/ HandleConnectionEvents
    \/ \E t \in PongTimes : HandleNetworkEvents(<<PongFrom(t)>>)
    \/ \E d \in From({1}, {JoinAccept(1, <<>>)}) : HandleNetworkEvents(<<d>>)
    \/ SendPing
    \/ \E dt \in 1..2 : now + dt <= PingHorizon /\ Advance(dt)

SpecPing == InitPing /\ [][NextPing]_vars

\* A host that takes joins while time passes and update_server_discovery
\* announces.
NextAnnounce ==
    \/ \E d \in From(Addr, {JoinRequest("Player")}) : HandleNetworkEvents(<<d>>)
    \/ UpdateServerDiscovery
    \/ \E dt \in 1..2 : Advance(dt)

SpecAnnounce == InitHost /\ [][NextAnnounce]_vars

\* A process right after connect_to_server(1) succeeded in the lobby: the
\* host at address 1 answers, and spawns, updates and removes participants.
InitJoined ==
    /\ gameState = "Lobby"
    /\ mode = "Client"
    /\ socket = [port |-> EPHEMERAL_PORT, peer |-> 1]
    /\ server_addr = 1
    /\ local_player_id = 0
    /\ last_discovery = 0
    /\ ping_ms = 0
    /\ last_ping_sent = 0
    /\ servers = MapInsert(EmptyMap, 1, ServerInfo("LAN Server", 0, MAX_PLAYERS, 0))
    /\ players = EmptyMap
    /\ client_addresses = EmptyMap
    /\ events = <<>>
    /\ sent = <<Datagram(1, JoinRequest("Player"))>>
    /\ now = 0
    /\ result = "Ok"
    /\ scn = ScnOff
    /\ dropped = 0
    /\ overflow_checks = TRUE
    /\ fault = FALSE
    /\ pinged = <<-1, -1>>
    /\ wire = NoWire
    /\ remote_players = <<>>
    /\ EngineNew

\* an entry of JoinAccept.existing_players
Existing(id, position) == <<id, position, IDENTITY>>

\* snapshots of a host's player table: every id at most once
JoinLists ==
    {<<>>}
        \cup {<<Existing(i, P123)>> : i \in 1..MaxId}
        \cup {<<Existing(q[1], ZERO), Existing(q[2], P123)>> :
                  q \in {r \in (1..MaxId) \X (1..MaxId) : r[1] # r[2]}}
        \cup {[i \in 1..MaxId |-> Existing(i, IF i = 1 THEN P123 ELSE ZERO)]}

JoinAccepts == From({1}, {JoinAccept(a, l) : a \in 1..MaxId, l \in JoinLists})

\* the foreign participant whose spawn and update race
X == 2
SpawnX == [from |-> 1, data |-> Serialize(PlayerSpawn(X, ZERO, IDENTITY))]
UpdateX == [from |-> 1, data |-> Serialize(PlayerUpdate(X, P123, IDENTITY))]

JoinedBatches ==
    {<<d>> : d \in JoinAccepts \cup From({1}, {PlayerDisconnect(X)})}
        \cup UNION {[1..n -> {SpawnX, UpdateX}] : n \in 0..MaxBatch}

NextJoined ==
    \/ \E buf \in JoinedBatches : HandleNetworkEvents(buf)
    \/ HandleConnectionEvents
    \/ \E p \in Positions : SyncPlayers(p)

SpecJoined == InitJoined /\ [][NextJoined]_vars

\* A host whose sends may fail.
FailDatagrams ==
    From(Addr, {JoinRequest("Player")})
        \cup From({1}, {PlayerUpdate(1, P123, IDENTITY), Ping(0), DiscoveryRequest})

FailSets == SUBSET (1..MaxFails)

NextSendFail ==
    \/ \E d \in FailDatagrams, fails \in FailSets : HandleNetworkEventsIo(<<d>>, fails)
    \/ HandleNetworkEvents(<<>>)

SpecSendFail == InitHost /\ [][NextSendFail]_vars

\* The messages of the wire protocol over bounded field values, each taken
\* through bincode and back.
Messages ==
    {ServerAnnounce(n, c, MAX_PLAYERS) : n \in {"LAN Server", ""}, c \in Ids}
        \cup {DiscoveryRequest}
        \cup {JoinRequest(n) : n \in {"Player", ""}}
        \cup {JoinAccept(a, l) : a \in Ids, l \in JoinLists}
        \cup {PlayerSpawn(i, p, IDENTITY) : i \in Ids, p \in Positions}
        \cup {PlayerUpdate(i, p, IDENTITY) : i \in Ids, p \in Positions}
        \cup {PlayerDisconnect(i) : i \in Ids}
        \cup {Ping(t) : t \in 0..MaxTime}
        \cup {Pong(t) : t \in 0..MaxTime}

InitCodec ==
    /\ gameState = "Menu"
    /\ mode = "None"
    /\ socket = NoSocket
    /\ server_addr = NoAddr
    /\ local_player_id = 0
    /\ last_discovery = 0
    /\ ping_ms = 0
    /\ last_ping_sent = 0
    /\ servers = EmptyMap
    /\ players = EmptyMap
    /\ client_addresses = EmptyMap
    /\ events = <<>>
    /\ sent = <<>>
    /\ now = 0
    /\ result = "None"
    /\ scn = ScnOff
    /\ dropped = 0
    /\ overflow_checks = TRUE
    /\ fault = FALSE
    /\ pinged = <<-1, -1>>
    /\ wire \in {[stage |-> "built", msg |-> m] : m \in Messages}
    /\ remote_players = <<>>
    /\ EngineNew

NextCodec == Encode \/ Decode

SpecCodec == InitCodec /\ [][NextCodec]_vars

-----------------------------------------------------------------------------
(* Specifications of the engine library.  The session layer stays as it is  *)
(* constructed.                                                             *)

SessionIdle ==
    /\ gameState = "Menu"
    /\ mode = "None"
    /\ socket = NoSocket
    /\ server_addr = NoAddr
    /\ local_player_id = 0
    /\ last_discovery = 0
    /\ ping_ms = 0
    /\ last_ping_sent = 0
    /\ servers = EmptyMap
    /\ players = EmptyMap
    /\ client_addresses = EmptyMap
    /\ events = <<>>
    /\ sent = <<>>
    /\ now = 0
    /\ result = "None"
    /\ scn = ScnOff
    /\ dropped = 0
    /\ fault = FALSE
    /\ pinged = <<-1, -1>>
    /\ wire = NoWire
    /\ remote_players = <<>>

\* A ChunkManager of either build, its callers loading and unloading chunks
\* near and far and moving the player.
InitChunks ==
    /\ SessionIdle
    /\ overflow_checks \in BOOLEAN
    /\ chunk_manager \in {NewChunkManager(r) : r \in 0..MaxRadius}
    /\ player = NewPlayer
    /\ renderer = NewRenderer(10000)
    /\ calls = 0

ChunkPositions ==
    {ChunkPos(0, 0), ChunkPos(10, 10), ChunkPos(I32_MIN, 0), ChunkPos(3, I32_MAX)}

PlayerPositions == {[x |-> 8, z |-> 8], [x |-> -1, z |-> 0], [x |-> 40, z |-> -17]}

NextChunks ==
    \/ \E pos \in ChunkPositions : GenerateChunk(pos)
    \/ \E pos \in ChunkPositions : UnloadChunk(pos)
    \/ \E p \in PlayerPositions : UpdateLoadedChunks(p)

SpecChunks == InitChunks /\ [][NextChunks]_vars


\* A player whose public fields hold any of the values below, driven by the
\* two stamina operations of PlayerController with any input and frame time.
StartStamina == {0, 29999999, 30000000, 100000000}

InitPlayer ==
    /\ SessionIdle
    /\ overflow_checks = TRUE
    /\ chunk_manager = NewChunkManager(3)
    /\ player \in {[NewPlayer EXCEPT !.stamina = s, !.is_sprinting = b,
                                     !.is_grounded = g,
                                     !.time_since_last_sprint = t] :
                       s \in StartStamina, b \in BOOLEAN, g \in BOOLEAN,
                       t \in {0, 999000}}
    /\ renderer = NewRenderer(10000)
    /\ calls = 0

Inputs == {InputState(s, f, l) : s \in BOOLEAN, f \in BOOLEAN, l \in BOOLEAN}

FrameTimes == {16, 250, 6000}

NextPlayer ==
    \/ \E input \in Inputs, dt \in FrameTimes : UpdateSprintState(input, dt)
    \/ \E dt \in FrameTimes : UpdateStamina(dt)

SpecPlayer == InitPlayer /\ [][NextPlayer]_vars

\* A renderer of any capacity up to MaxInstances, filled and cleared.
InitRenderer ==
    /\ SessionIdle
    /\ overflow_checks = TRUE
    /\ chunk_manager = NewChunkManager(3)
    /\ player = NewPlayer
    /\ renderer \in {NewRenderer(m) : m \in 0..MaxInstances}
    /\ calls = 0

Instances == {1, 2}

NextRenderer ==
    \/ \E instance \in Instances, is_pipe \in BOOLEAN :
            AddInstance(instance, is_pipe)
    \/ Clear

SpecRenderer == InitRenderer /\ [][NextRenderer]_vars

\* The session layer from the menu on, in every role: the lobby's control
\* operations, one datagram or a batch of Pings per run of
\* handle_network_events, and sync_players.
PingBatches ==
    UNION {[1..n -> From(Addr, {Ping(MaxTime)}) \cup From({1}, {Ping(0)})] :
               n \in 1..MaxBatch}

NextSession ==
    \/ NextLobby
    \/ \E buf \in PingBatches : HandleNetworkEvents(buf)
    \/ \E p \in Positions : SyncPlayers(p)

SpecSession == Init /\ [][NextSession]_vars

\* The same with time: the clock jumps once, past the announce period, and
\* update_server_discovery runs.
NextElapse ==
    \/ NextLobby
    \/ UpdateServerDiscovery
    \/ now = 0 /\ Advance(PingHorizon)

SpecElapse == Init /\ [][NextElapse]_vars

\* A host that machines at MaxJoins addresses ask to join, each once, in any
\* order.
NextCapacity ==
    \E a \in 1..MaxJoins :
        /\ \A i \in DOMAIN client_addresses : client_addresses[i] # a
        /\ HandleNetworkEventsIn(<<[from |-> a, data |-> Serialize(JoinRequest("Player"))]>>,
                                 {}, 0..MaxJoins)

SpecCapacity == InitHost /\ [][NextCapacity]_vars

\* A process right after connect_to_server(1) succeeded, frame by frame: the
\* host's accept, and the spawn, the updates and the disconnect of another
\* participant, in any order and any number of times.
RemoteBatches ==
    UNION {[1..n -> {SpawnX, UpdateX}
                      \cup From({1}, {PlayerDisconnect(X), JoinAccept(1, <<>>),
                                      JoinAccept(1, <<Existing(X, P123)>>)})] :
               n \in 0..MaxBatch}

NextRemote == \E buf \in RemoteBatches : UpdateFrame(buf)

SpecRemote == InitJoined /\ [][NextRemote]_vars

-----------------------------------------------------------------------------
(* Properties of the host's registry (SpecHost). *)

JoinFrom(a) == [from |-> a, data |-> Serialize(JoinRequest("Player"))]
UpdateFrom(a, id, p) == [from |-> a, data |-> Serialize(PlayerUpdate(id, p, IDENTITY))]
DisconnectOf(id) == [from |-> 1, data |-> Serialize(PlayerDisconnect(id))]

Range(f) == {f[i] : i \in DOMAIN f}

\* client_addresses gets a key with every JoinRequest a host processes and
\* never loses one: its keys are the ids this host has assigned so far
AssignedIds == DOMAIN client_addresses

\* C1: on a host every processed JoinRequest is given an id that is at least
\* 1 and greater than every id assigned before in the session, so no id is
\* assigned twice, also after a PlayerDisconnect removed its record.
C1_IdsNeverReused ==
    [][\A a \in Addr :
          (mode = "Server" /\ HandleNetworkEvents(<<JoinFrom(a)>>))
              => /\ sent'[1].msg.player_id >= 1
                 /\ \A j \in AssignedIds : sent'[1].msg.player_id > j]_vars

\* C2: on a host the address map and the player table have the same keys in
\* every reachable state.
C2_SameKeySets ==
    mode = "Server" => DOMAIN client_addresses = DOMAIN players

\* C3: on a host with N participants a processed JoinRequest makes the
\* registry one larger, and the JoinAccept sent to the requester lists the N
\* prior participants and not the new id.
C3_JoinAddsOne ==
    [][\A a \in Addr :
          (mode = "Server" /\ HandleNetworkEvents(<<JoinFrom(a)>>))
              => /\ Cardinality(DOMAIN players') = Cardinality(DOMAIN players) + 1
                 /\ sent'[1].to = a
                 /\ sent'[1].msg.kind = "JoinAccept"
                 /\ Len(sent'[1].msg.existing_players) = Cardinality(DOMAIN players)
                 /\ {e[1] : e \in Range(sent'[1].msg.existing_players)} = DOMAIN players
                 /\ sent'[1].msg.player_id \notin DOMAIN players]_vars

\* the registered participants have an address each and no two share one
DistinctParticipants ==
    /\ DOMAIN client_addresses = DOMAIN players
    /\ \A i, j \in DOMAIN client_addresses :
          client_addresses[i] = client_addresses[j] => i = j

\* C4: a PlayerUpdate a host receives from participant A is sent on by
\* unicast to the address of every other participant, one datagram each,
\* never to A's address and never to a broadcast address.
C4_RelayExcludesSender ==
    [][\A id \in DOMAIN client_addresses, p \in Positions :
          (/\ mode = "Server"
           /\ DistinctParticipants
           /\ HandleNetworkEvents(<<UpdateFrom(client_addresses[id], id, p)>>))
              => /\ Len(sent') = Cardinality(DOMAIN client_addresses) - 1
                 /\ {d.to : d \in Range(sent')} =
                        {client_addresses[j] : j \in DOMAIN client_addresses \ {id}}
                 /\ \A d \in Range(sent') :
                        /\ d.msg = PlayerUpdate(id, p, IDENTITY)
                        /\ d.to # client_addresses[id]
                        /\ d.to \in Addr]_vars

\* a relay to two others has happened on a host with three participants
C4_Witness ==
    /\ mode = "Server"
    /\ DistinctParticipants
    /\ Cardinality(DOMAIN client_addresses) = 3
    /\ Len(sent) = 2
    /\ \A d \in Range(sent) : d.msg.kind = "PlayerUpdate"

\* C5: a host that starts with an empty registry gives the first requester X
\* id 1 with a zero record and address X; the update {1, (1,2,3)} from X then
\* moves record 1 and is sent to nobody; the next requester Y gets id 2 and
\* the PlayerSpawn for 2 goes to X and not to Y.
C5_JoinScenario ==
    /\ scn.step = 1 =>
          /\ players = (1 :> PlayerData(1, ZERO, IDENTITY, NoEntity))
          /\ client_addresses = (1 :> scn.x)
          /\ scn.fresh => sent = <<Datagram(scn.x, JoinAccept(1, <<>>))>>
    /\ scn.step = 2 =>
          /\ DOMAIN players = {1}
          /\ players[1].position = P123
          /\ client_addresses = (1 :> scn.x)
          /\ scn.fresh => sent = <<>>
    /\ scn.step = 3 =>
          /\ DOMAIN players = {1, 2}
          /\ client_addresses = (1 :> scn.x) @@ (2 :> scn.y)
          /\ scn.fresh =>
                /\ \E d \in Range(sent) : d.to = scn.y /\ d.msg.kind = "JoinAccept"
                                              /\ d.msg.player_id = 2
                /\ \E d \in Range(sent) : d.to = scn.x
                                              /\ d.msg = PlayerSpawn(2, ZERO, IDENTITY)
                /\ \A d \in Range(sent) : d.msg.kind = "PlayerSpawn" => d.to # scn.y

C5_Witness == scn.step = 3 /\ scn.fresh /\ mode = "Server"

\* C7: a PlayerDisconnect{id} processed right after a PlayerDisconnect{id}
\* leaves the player table and the address map as the first one left them.
C7_DisconnectIdempotent ==
    [][\A id \in Ids :
          (/\ events = << <<"PlayerLeft", id>> >>
           /\ HandleNetworkEvents(<<DisconnectOf(id)>>))
              => /\ players' = players
                 /\ client_addresses' = client_addresses]_vars

\* a participant that had joined was disconnected by the last run
C7_Witness ==
    \E id \in DOMAIN client_addresses :
        /\ events = << <<"PlayerLeft", id>> >>
        /\ id \notin DOMAIN players
        /\ DOMAIN players # {}

-----------------------------------------------------------------------------
(* Properties of the catalog, the control operations and the drain loop. *)

\* C6: an entry whose last announcement was seen at time t is, after the
\* prune of update_server_discovery, still there at every time <= t + 5 s
\* and gone at every time > t + 5 s.
C6_CatalogExpiry ==
    [][UpdateServerDiscovery =>
          \A a \in DOMAIN servers :
              /\ now - servers[a].last_seen <= STALE_WINDOW => a \in DOMAIN servers'
              /\ now - servers[a].last_seen > STALE_WINDOW => a \notin DOMAIN servers']_vars

ControlCall(ok) ==
    \/ MenuMultiplayer(ok)
    \/ LobbyCreateServer(ok)
    \/ LobbyRefresh(ok)
    \/ \E a \in Addr : LobbyJoinServer(a, ok)

\* C8: a create_server, start_discovery or connect_to_server that fails
\* returns Err and leaves role, socket, host address and local id as they
\* were.
C8_FailureLeavesState ==
    [][\A ok \in BOOLEAN :
          ControlCall(ok) =>
              /\ ~ok => result' = "Err"
              /\ result' = "Err" =>
                    UNCHANGED <<mode, socket, server_addr, local_player_id>>]_vars

\* a connect failed in the lobby and the discovery session is still there
C8_Witness ==
    /\ result = "Err"
    /\ gameState = "Lobby"
    /\ mode = "None"
    /\ socket.port = DISCOVERY_PORT
    /\ DOMAIN servers # {}

Decodable(buf) == SelectSeq(buf, LAMBDA d : Deserialize(d.data) # DecodeErr)

GarbledBatches == {b \in PumpBatches : Len(Decodable(b)) < Len(b)}

\* C9: a run of handle_network_events whose batch holds undecodable
\* datagrams ends in the state, with the events and with the datagrams sent
\* of a run on the batch without them; undecodable datagrams alone change
\* nothing, raise no event and send nothing.
C9_UndecodableDropped ==
    [][dropped' > 0 =>
          \A buf \in GarbledBatches :
              HandleNetworkEvents(buf) =>
                  \E w \in {ProcessPending(World, PendingUpdates(Decodable(buf)), 1)} :
                      /\ players' = w.players
                      /\ client_addresses' = w.client_addresses
                      /\ servers' = w.servers
                      /\ local_player_id' = w.local_player_id
                      /\ ping_ms' = w.ping_ms
                      /\ events' = w.events
                      /\ sent' = w.sent
                      /\ UNCHANGED <<mode, socket, server_addr, last_discovery,
                                     last_ping_sent>>]_vars

\* the last run dropped a datagram and reacted to another one
C9_Witness == dropped > 0 /\ events # <<>> /\ sent # <<>>

\* C10 as claimed: a Host stays Host and a Joined process stays Joined,
\* whatever lobby actions are taken and whatever messages arrive.
C10_RoleOneWay ==
    [][/\ mode = "Server" => mode' = "Server"
       /\ mode = "Client" => mode' = "Client"]_vars

\* C10 as amended: no received message changes the role; a Host stays Host;
\* the Joined role is left only while the application is not yet in the
\* game, by a start_discovery (Refresh, or entering the lobby again) or a
\* create_server that succeeds and installs another socket.
C10_RoleChanges ==
    [][/\ mode = "Server" => mode' = "Server"
       /\ \A d \in Datagrams : HandleNetworkEvents(<<d>>) => mode' = mode
       /\ (mode = "Client" /\ mode' # "Client") =>
             /\ gameState # "InGame"
             /\ result' = "Ok"
             /\ socket' # socket
             /\ \/ /\ mode' = "None"
                   /\ MenuMultiplayer(TRUE) \/ LobbyRefresh(TRUE)
                \/ /\ mode' = "Server"
                   /\ LobbyCreateServer(TRUE)]_vars

\* a joined process has entered the game
C10_Witness == mode = "Client" /\ gameState = "InGame" /\ local_player_id # 0

-----------------------------------------------------------------------------
(* Properties of the control operations and of the reactions (C11..C20). *)

\* C11: start_discovery called while the discovery socket of an earlier
\* start_discovery is still held (Refresh, or entering the lobby again)
\* succeeds when the operating system refuses nothing else: a socket is open
\* on the discovery port, one DiscoveryRequest is broadcast and every entry
\* of the catalog is still there.
C11_RestartDiscovery ==
    [][(/\ socket.port = DISCOVERY_PORT
        /\ LobbyRefresh(TRUE) \/ MenuMultiplayer(TRUE)) =>
           /\ result' = "Ok"
           /\ socket' = [port |-> DISCOVERY_PORT, peer |-> NoAddr]
           /\ sent' = <<Datagram(BROADCAST_7878, DiscoveryRequest)>>
           /\ \A a \in DOMAIN servers :
                 a \in DOMAIN servers' /\ servers'[a] = servers[a]]_vars

\* C12: a connect_to_server(address) that succeeds leaves the role Joined,
\* the host address recorded, exactly one JoinRequest sent to that address
\* and the local id 0; while the process is Joined the local id changes only
\* in a run of handle_network_events that processes a JoinAccept.
C12_ConnectSpeculative ==
    [][/\ \A a \in Addr :
             (LobbyJoinServer(a, TRUE) /\ result' = "Ok") =>
                 /\ mode' = "Client"
                 /\ server_addr' = a
                 /\ sent' = <<Datagram(a, JoinRequest("Player"))>>
                 /\ local_player_id' = 0
       /\ (mode = "Client" /\ mode' = "Client"
             /\ local_player_id' # local_player_id) =>
                 \E d \in Datagrams :
                     /\ Deserialize(d.data).kind = "JoinAccept"
                     /\ HandleNetworkEvents(<<d>>)]_vars

\* C13: a Joined process that processes the Pong echoing its last Ping{t0}
\* at clock time t1 stores t1 - t0 milliseconds; whatever timestamp a Pong
\* carries, processing it does not fault and the stored latency is >= 0.
C13_Latency ==
    [][\A t \in PongTimes :
          (mode = "Client" /\ HandleNetworkEvents(<<PongFrom(t)>>)) =>
              /\ ~fault'
              /\ ping_ms' >= 0
              /\ t = pinged[2] => ping_ms' = (now - pinged[2]) * UNIT_MS]_vars

DiscoveryRequestFrom(a) == [from |-> a, data |-> Serialize(DiscoveryRequest)]

\* C14: a host that processes a DiscoveryRequest sends, in that run, one
\* ServerAnnounce by unicast to the address the request came from; a process
\* that is no host sends nothing.
C14_DiscoveryReply ==
    [][\A a \in Addr :
          HandleNetworkEvents(<<DiscoveryRequestFrom(a)>>) =>
              IF mode = "Server"
              THEN /\ Len(sent') = 1
                   /\ sent'[1].msg.kind = "ServerAnnounce"
                   /\ sent'[1].to = a
              ELSE sent' = <<>>]_vars

\* C15: every ServerAnnounce a host broadcasts periodically carries the
\* number of participants in the host's registry at that moment.
C15_AnnounceCount ==
    [][(mode = "Server" /\ UpdateServerDiscovery) =>
          \A i \in 1..Len(sent') :
              sent'[i].msg.kind = "ServerAnnounce" =>
                  sent'[i].msg.player_count = Cardinality(DOMAIN players)]_vars

SendsPing(seq) == \E i \in 1..Len(seq) : seq[i].msg.kind = "Ping"

\* C16: a Ping is sent only by a process whose role is Joined, and any two
\* consecutive Pings of a process are at least 500 ms apart.
C16_PingCadence ==
    [][(SendPing \/ (SendsPing(sent') /\ sent' # sent)) =>
          /\ mode = "Client"
          /\ SendPing
          /\ pinged'[2] = now
          /\ pinged'[1] >= 0 => pinged'[2] - pinged'[1] >= PING_PERIOD]_vars

\* a second Ping has just been sent, 500 ms after the one before, by a
\* process that left the Joined role and took it again in between
C16_Witness ==
    /\ mode = "Client"
    /\ pinged[1] >= 0
    /\ pinged[2] = pinged[1] + PING_PERIOD
    /\ pinged[2] = now
    /\ SendsPing(sent)
    /\ last_discovery >= pinged[1]

Count(seq, e) == Cardinality({k \in 1..Len(seq) : seq[k] = e})

\* C17: when a Joined process processes JoinAccept{assigned_id, existing},
\* its local id is assigned_id afterwards, its registry holds a replica with
\* the listed position and orientation for every listed id other than
\* assigned_id, and the run emitted exactly one PlayerJoined(id) per such id
\* and exactly one ConnectedToServer, and no other event.
C17_JoinAccept ==
    [][\A d \in JoinAccepts :
          (mode = "Client" /\ HandleNetworkEvents(<<d>>)) =>
              LET m == Deserialize(d.data)
                  list == m.existing_players
                  others == {i \in 1..Len(list) : list[i][1] # m.player_id}
              IN /\ local_player_id' = m.player_id
                 /\ \A i \in others :
                       /\ list[i][1] \in DOMAIN players'
                       /\ players'[list[i][1]] =
                              PlayerData(list[i][1], list[i][2], list[i][3], NoEntity)
                       /\ Count(events', <<"PlayerJoined", list[i][1]>>) = 1
                 /\ Count(events', <<"ConnectedToServer", d.from>>) = 1
                 /\ Len(events') = Cardinality(others) + 1]_vars

\* a JoinAccept that listed the process itself and two others was processed
C17_Witness ==
    /\ mode = "Client"
    /\ local_player_id = 2
    /\ events = <<<<"PlayerJoined", 1>>, <<"PlayerJoined", 3>>,
                  <<"ConnectedToServer", 1>>>>
    /\ DOMAIN players = {1, 3}

\* C18: on a Joined process a PlayerUpdate and a PlayerSpawn for the same
\* foreign id, delivered in either order in one batch, are both processed
\* without fault and leave exactly one registry record for that id.
C18_SpawnUpdateRace ==
    [][\A buf \in {<<UpdateX, SpawnX>>, <<SpawnX, UpdateX>>} :
          (mode = "Client" /\ local_player_id # X /\ HandleNetworkEvents(buf)) =>
              /\ ~fault'
              /\ dropped' = 0
              /\ Cardinality({k \in DOMAIN players' : players'[k].id = X}) = 1
              /\ X \in DOMAIN players'
              /\ players'[X].position = IF buf[2] = UpdateX THEN P123 ELSE ZERO
              /\ Count(events', <<"PlayerJoined", X>>) = 1
              /\ Count(events', <<"PlayerMoved", X, P123, IDENTITY>>) = 1
              /\ Len(events') = 2]_vars

\* the update came first, for a participant the process had no record of
C18_Witness ==
    /\ mode = "Client"
    /\ local_player_id = 1
    /\ events = <<<<"PlayerMoved", X, P123, IDENTITY>>, <<"PlayerJoined", X>>>>
    /\ DOMAIN players = {X}
    /\ players[X].position = ZERO

\* the entries of seq whose numbers are not in fails, in order
Without(seq, fails) ==
    LET kept == SortedSeq({i \in 1..Len(seq) : i \notin fails})
    IN [j \in 1..Len(kept) |-> seq[kept[j]]]

\* C19: a send that fails on the open socket is ignored: the run ends
\* without fault in the state and with the events of the run in which every
\* send succeeds, every other datagram of the run is sent, once and in order,
\* and the datagram that failed is not sent again by a later run.
C19_SendFailureIgnored ==
    [][/\ \A d \in FailDatagrams, fails \in FailSets :
             HandleNetworkEventsIo(<<d>>, fails) =>
                 \E w \in {ProcessPending(World, PendingUpdates(<<d>>), 1)} :
                     /\ ~fault'
                     /\ players' = w.players
                     /\ client_addresses' = w.client_addresses
                     /\ events' = w.events
                     /\ sent' = Without(w.sent, fails)
       /\ HandleNetworkEvents(<<>>) => sent' = <<>>]_vars

\* the JoinAccept for the second participant could not be sent: the
\* participant is registered all the same and its spawn went to the first
C19_Witness ==
    /\ mode = "Server"
    /\ events = <<<<"PlayerJoined", 2>>>>
    /\ DOMAIN players = {1, 2}
    /\ DOMAIN client_addresses = {1, 2}
    /\ sent = <<Datagram(client_addresses[1], PlayerSpawn(2, ZERO, IDENTITY))>>

-----------------------------------------------------------------------------
(* Properties of the chunk manager (SpecChunks). *)

\* C21: when update_loaded_chunks(p) returns, whatever was loaded before, the
\* loaded chunks are exactly the positions whose x and z each differ from the
\* player's chunk floor(p / 16) by at most load_radius.
C21_LoadedSquare ==
    [][\A p \in PlayerPositions :
          UpdateLoadedChunks(p) /\ ~fault' =>
             LET r == chunk_manager.load_radius
                 cx == p.x \div 16
                 cz == p.z \div 16
             IN chunk_manager'.chunks =
                    {ChunkPos(x, z) : x \in (cx - r)..(cx + r),
                                      z \in (cz - r)..(cz + r)}]_vars

-----------------------------------------------------------------------------
(* Properties of the player controller (SpecPlayer). *)

\* C22: from any starting stamina in [0, 100], after every update_stamina
\* call with a positive dt, sprinting or not, stamina lies in [0, 100].
C22_StaminaBounds ==
    /\ player.stamina >= 0
    /\ player.stamina <= 100 * 1000000

\* a sprint that update_sprint_state started has drained stamina to the floor
C22_Witness ==
    /\ calls >= 2
    /\ player.is_sprinting
    /\ player.current_speed_multiplier > WALK_MULTIPLIER
    /\ player.stamina = 0

\* C23: after every update_sprint_state call is_sprinting is true exactly
\* when the sprint input and at least one movement input are held and stamina
\* is at least 30, whatever is_grounded and the previous is_sprinting were.
C23_SprintRule ==
    [][\A input \in Inputs, dt \in FrameTimes :
          UpdateSprintState(input, dt) =>
             (player'.is_sprinting <=>
                 /\ input.sprint
                 /\ \/ input.move_forward \/ input.move_back
                    \/ input.move_left \/ input.move_right
                 /\ player.stamina >= 30 * 1000000)]_vars

\* a sprint started in the air with stamina exactly at the threshold
C23_Witness ==
    /\ calls = 1
    /\ player.is_sprinting
    /\ player.current_speed_multiplier > WALK_MULTIPLIER
    /\ ~player.is_grounded
    /\ player.stamina = 30 * 1000000

-----------------------------------------------------------------------------
(* Properties of the instanced renderer (SpecRenderer). *)

\* C24: each of the two lists holds at most max_instances entries; an add
\* appends to its own list whenever that list is below the limit, whatever
\* the other list holds, and otherwise changes nothing and does not fail;
\* clear empties both lists.
C24_InstanceLimits ==
    /\ Len(renderer.spire_instances) <= renderer.max_instances
    /\ Len(renderer.pipe_instances) <= renderer.max_instances
    /\ \A instance \in Instances :
          /\ ENABLED (/\ AddInstance(instance, TRUE)
                      /\ renderer'.spire_instances = renderer.spire_instances
                      /\ renderer'.pipe_instances =
                           IF Len(renderer.pipe_instances) < renderer.max_instances
                           THEN Append(renderer.pipe_instances, instance)
                           ELSE renderer.pipe_instances
                      /\ ~fault')
          /\ ENABLED (/\ AddInstance(instance, FALSE)
                      /\ renderer'.pipe_instances = renderer.pipe_instances
                      /\ renderer'.spire_instances =
                           IF Len(renderer.spire_instances) < renderer.max_instances
                           THEN Append(renderer.spire_instances, instance)
                           ELSE renderer.spire_instances
                      /\ ~fault')
    /\ ENABLED (/\ Clear
                /\ renderer'.spire_instances = <<>>
                /\ renderer'.pipe_instances = <<>>)

\* both lists full at once
C24_Witness ==
    /\ renderer.max_instances >= 2
    /\ Len(renderer.spire_instances) = renderer.max_instances
    /\ Len(renderer.pipe_instances) = renderer.max_instances

-----------------------------------------------------------------------------
(* Properties of the session layer in every role (SpecSession). *)

\* C25: a host that processes Ping{t} sends exactly one Pong{t}, by unicast
\* to the address the Ping came from; a process that is not host sends no
\* Pong.  Stated for every batch of Pings a run may drain.
C25_PingEcho ==
    \A buf \in PingBatches :
        (/\ ~fault
         /\ socket # NoSocket
         /\ \A i \in 1..Len(buf) : Accepts(buf[i])) =>
            ENABLED (/\ HandleNetworkEvents(buf)
                     /\ sent' = IF mode = "Server"
                                THEN [i \in 1..Len(buf) |->
                                        [to |-> buf[i].from,
                                         msg |-> Pong(Deserialize(buf[i].data).timestamp)]]
                                ELSE <<>>)

\* a host has answered two Pings of one run, each to its sender
C25_Witness ==
    /\ mode = "Server"
    /\ sent = <<[to |-> 2, msg |-> Pong(MaxTime)], [to |-> 1, msg |-> Pong(0)]>>

-----------------------------------------------------------------------------
(* Properties of the host's reaction to updates (SpecHost). *)

\* C26: a host changes no record and relays to nobody when it processes a
\* PlayerUpdate whose id is not in its registry or whose sender address is
\* not the address registered for that id.
C26_KnownSenderOnly ==
    [][\A a \in Addr, id \in Ids :
          (/\ HandleNetworkEvents(<<UpdateFrom(a, id, P123)>>)
           /\ ~(/\ id \in DOMAIN players
                /\ id \in DOMAIN client_addresses
                /\ client_addresses[id] = a)) =>
             /\ players' = players
             /\ sent' = <<>>]_vars

-----------------------------------------------------------------------------
(* Properties of sync_players (SpecSession). *)

\* C27 as stated: in each tick in which the role is Joined exactly one
\* PlayerUpdate with the assigned id and the local transform is sent, to the
\* recorded host address only; an inactive or discovering process sends none.
C27_UpdateEveryTick ==
    /\ mode = "Client" =>
          \E p \in Positions :
             ENABLED (/\ SyncPlayers(p)
                      /\ sent' = <<[to |-> server_addr,
                                    msg |-> PlayerUpdate(local_player_id, p, IDENTITY)]>>)
    /\ mode = "None" => \A p \in Positions : ~ENABLED (SyncPlayers(p) /\ sent' # <<>>)

\* C27: in each tick in which the role is Joined and the local participant
\* entity exists (the application is InGame), exactly one PlayerUpdate with the
\* assigned id and the local transform is sent, to the recorded host address
\* only; a Joined process still in the lobby and an inactive or discovering
\* process send none.
C27_UpdateWhenInGame ==
    /\ (mode = "Client" /\ gameState = "InGame" /\ ~fault) =>
          \A p \in Positions :
             ENABLED (/\ SyncPlayers(p)
                      /\ sent' = <<[to |-> server_addr,
                                    msg |-> PlayerUpdate(local_player_id, p, IDENTITY)]>>)
    /\ (mode = "None" \/ (mode = "Client" /\ gameState # "InGame")) =>
          \A p \in Positions : ~ENABLED (SyncPlayers(p) /\ sent' # <<>>)

\* a joined process in the game has sent its transform under its assigned id
C27_Witness ==
    /\ mode = "Client"
    /\ gameState = "InGame"
    /\ local_player_id = 1
    /\ sent = <<[to |-> server_addr, msg |-> PlayerUpdate(1, P123, IDENTITY)]>>

\* C28: in each tick in which the role is Host and the local participant
\* entity exists, the host sends one PlayerUpdate with its own id and
\* transform by unicast to every address of its address map, one datagram per
\* registered participant, and none to a broadcast address.
C28_HostSync ==
    (mode = "Server" /\ gameState = "InGame" /\ ~fault) =>
        \A p \in Positions :
           ENABLED (/\ SyncPlayers(p)
                    /\ \A i \in 1..Len(sent') :
                          /\ sent'[i].msg = PlayerUpdate(local_player_id, p, IDENTITY)
                          /\ sent'[i].to \in Addr
                    /\ \A a \in Addr :
                          Cardinality({i \in 1..Len(sent') : sent'[i].to = a}) =
                          Cardinality({id \in DOMAIN client_addresses :
                                          client_addresses[id] = a}))

-----------------------------------------------------------------------------
(* Properties of a joined process's registry (SpecJoined). *)

\* C29: on a Joined process a PlayerUpdate or PlayerSpawn carrying the
\* process's own assigned id leaves the registry unchanged and emits no
\* event, and the registry never holds a record keyed by the assigned id.
C29_NoOwnReplica ==
    [][/\ \A d \in {SpawnX, UpdateX} :
             (HandleNetworkEvents(<<d>>) /\ mode = "Client" /\ local_player_id = X) =>
                 /\ players' = players
                 /\ events' = <<>>
       /\ (mode' = "Client" /\ local_player_id' # 0) =>
             local_player_id' \notin DOMAIN players']_vars

-----------------------------------------------------------------------------
(* Properties of the registry over role changes and time (SpecElapse). *)

\* C30: a registry record disappears only in a run of handle_network_events
\* that processes a PlayerDisconnect for its id: not by time passing, by a
\* role change or by a message of another kind.
C30_RemovedByDisconnectOnly ==
    [][\A id \in DOMAIN players \ DOMAIN players' :
          \E d \in Datagrams :
             /\ HandleNetworkEvents(<<d>>)
             /\ Deserialize(d.data) = PlayerDisconnect(id)]_vars

\* a record taken while discovering is still held after time has passed and
\* the process has connected to a host
C30_Witness ==
    /\ 2 \in DOMAIN players
    /\ now = PingHorizon
    /\ mode = "Client"
    /\ sent = <<[to |-> server_addr, msg |-> JoinRequest("Player")]>>

-----------------------------------------------------------------------------
(* Properties of the catalog's refresh, the session state, the drain loop,  *)
(* the regeneration delay and the registry under hostile or reordered       *)
(* datagrams.                                                               *)

\* C31: the catalog is keyed by sender address; a ServerAnnounce processed
\* from an address, listed or not, leaves one entry for it with the
\* announced name, player count and capacity and last_seen = now and the
\* other entries as they were, and the prune keeps, unchanged, every entry
\* whose last announcement is less than 5 s old.
C31_AnnounceRefreshes ==
    /\ \A d \in Announcements :
          (~fault /\ socket # NoSocket /\ Accepts(d)) =>
              ENABLED (/\ HandleNetworkEvents(<<d>>)
                       /\ servers' =
                            MapInsert(servers, d.from,
                                      ServerInfo(Deserialize(d.data).name,
                                                 Deserialize(d.data).player_count,
                                                 Deserialize(d.data).max_players,
                                                 now)))
    /\ \A a \in DOMAIN servers :
          (~fault /\ now - servers[a].last_seen < STALE_WINDOW) =>
              ENABLED (/\ UpdateServerDiscovery
                       /\ a \in DOMAIN servers'
                       /\ servers'[a] = servers[a])

\* the prune window of its first announcement has passed and a listed
\* address, announced again since, is still listed beside another
C31_Witness ==
    /\ now >= STALE_WINDOW
    /\ Cardinality(DOMAIN servers) = 2
    /\ \E a \in DOMAIN servers :
          /\ servers[a].last_seen > 0
          /\ now - servers[a].last_seen < STALE_WINDOW
          /\ now > servers[a].last_seen

\* C32: in every reachable state a Server holds a socket and records no
\* server address, and a Client holds a socket and records the address of
\* the server, the peer its socket is connected to.
C32_RoleShape ==
    /\ mode = "Server" => socket # NoSocket /\ server_addr = NoAddr
    /\ mode = "Client" => /\ socket # NoSocket
                          /\ server_addr # NoAddr
                          /\ socket.peer = server_addr

\* a host that had found a server to join before Create Server was pressed
C32_Witness ==
    /\ mode = "Server"
    /\ result = "Ok"
    /\ gameState = "InGame"
    /\ DOMAIN servers # {}
    /\ local_player_id = 0

C34_RegenDelay ==
    (~fault /\ calls < MaxCalls) =>
        /\ \A dt \in FrameTimes :
              ENABLED (/\ UpdateStamina(dt)
                       /\ (player.is_sprinting
                             \/ player.time_since_last_sprint < stamina_regen_delay)
                              => player'.stamina <= player.stamina
                       /\ player'.time_since_last_sprint = player.time_since_last_sprint
                       /\ player'.is_sprinting = player.is_sprinting)
        /\ \A input \in Inputs, dt \in FrameTimes :
              ENABLED (/\ UpdateSprintState(input, dt)
                       /\ player'.time_since_last_sprint =
                            IF player'.is_sprinting \/ player.is_sprinting
                            THEN 0
                            ELSE player.time_since_last_sprint + dt
                       /\ player'.stamina = player.stamina)

\* sprinting stopped less than the delay ago and stamina is not full
C34_Witness ==
    /\ calls = 2
    /\ ~player.is_sprinting
    /\ player.time_since_last_sprint > 0
    /\ player.time_since_last_sprint < stamina_regen_delay
    /\ player.stamina < FULL_STAMINA

\* C35: a host registers at most MAX_PLAYERS participants, the capacity its
\* ServerAnnounce advertises: in every reachable state the player table and
\* the address map hold at most MAX_PLAYERS entries (so a JoinRequest
\* processed when they hold MAX_PLAYERS registers nobody).
C35_Capacity ==
    mode = "Server" =>
        /\ Cardinality(DOMAIN players) <= MAX_PLAYERS
        /\ Cardinality(DOMAIN client_addresses) <= MAX_PLAYERS

\* C36: on a host no two ids of the address map are mapped to the same
\* address, so a JoinRequest from an address that is registered already
\* creates no second participant.
C36_OneIdPerAddress ==
    mode = "Server" =>
        \A i, j \in DOMAIN client_addresses :
            client_addresses[i] = client_addresses[j] => i = j

\* C37: at any time at most one live remote-player entity carries a given
\* participant id, and a record whose entity is live keeps its handle,
\* whatever the order and repetition of JoinAccept, PlayerSpawn, PlayerUpdate
\* and PlayerDisconnect.
C37_OneReplicaPerId ==
    \A e1, e2 \in 1..Len(remote_players) :
        (/\ remote_players[e1].live
         /\ remote_players[e2].live
         /\ remote_players[e1].id = remote_players[e2].id) => e1 = e2

\* C38: whenever the application is InGame the mode is Server or Client: the
\* lobby is left for InGame only by a successful Create Server or after a
\* Client processed a JoinAccept.
C38_InGameHasRole ==
    gameState = "InGame" => mode \in {"Server", "Client"}

\* C39: a process whose mode is not Client that processes a JoinAccept keeps
\* local_player_id 0 and its player table and writes no event; a Server's
\* local_player_id is 0 in every reachable state.
C39_JoinAcceptJoinedOnly ==
    /\ mode = "Server" => local_player_id = 0
    /\ \A d \in {x \in Datagrams : Deserialize(x.data).kind = "JoinAccept"} :
          (~fault /\ socket # NoSocket /\ Accepts(d) /\ mode # "Client") =>
              ENABLED (/\ HandleNetworkEvents(<<d>>)
                       /\ local_player_id' = 0
                       /\ players' = players
                       /\ events' = <<>>)

\* C40: on a Client, after a run that processed PlayerDisconnect{id} the id
\* comes back into the player table only by a run that processed a
\* PlayerSpawn or a JoinAccept naming it (which write PlayerJoined(id)): a
\* PlayerUpdate for the id that arrives after the disconnect does not
\* recreate the record.
C40_NoRevivalByUpdate ==
    [][\A id \in Ids :
          (/\ mode = "Client"
           /\ events = << <<"PlayerLeft", id>> >>
           /\ id \notin DOMAIN players
           /\ id \in DOMAIN players') =>
              \E i \in 1..Len(events') : events'[i] = <<"PlayerJoined", id>>]_vars

====
